---- MODULE Spec2Model ----
(***************************************************************************)
(* Graph embedding / graph matching networks of src/src/utils/gmn.py.      *)
(*                                                                         *)
(* Thirteen specifications share this module and its variables.            *)
(*   Spec      the life cycle of one model object: build_model constructs  *)
(*             the encoder, the aggregator and the net and connects the    *)
(*             net three times; afterwards callers connect it again        *)
(*             (a forward pass), call reset_n_prop_layers and              *)
(*             get_layer_outputs.                                          *)
(*   SpecAttn  the pure function batch_block_pair_attention applied to     *)
(*             bounded inputs.                                             *)
(*   SpecProp  the propagation layers applied round after round to a       *)
(*             bounded graph.                                              *)
(*   SpecData  the generators pairs and triplets of the graph edit         *)
(*             distance datasets, with _pack_batch.                        *)
(*   SpecAgg   GraphAggregator._build applied to a bounded batch.          *)
(*   SpecPass  one forward pass of the embedding net over one graph.       *)
(*   SpecSizes aggregators constructed from one list of hidden sizes and   *)
(*             applied to node states.                                     *)
(*   SpecEdit  permute_graph_nodes and the loop of substitute_random_edges *)
(*             on a bounded graph; FairEdit adds fair scheduling of the    *)
(*             loop's draws.                                               *)
(*   SpecRand  the context manager reset_random_state around draws from    *)
(*             the two random generators.                                  *)
(*   SpecSplit reshape_and_split_tensor applied to bounded tensors.        *)
(*   SpecFixed the batch iterators of the fixed datasets.                  *)
(*   SpecBatch one forward pass of the embedding net over a batch, a graph *)
(*             alone and the same graph among others.                      *)
(*                                                                         *)
(* Layer objects are identified by the order of their construction.  In    *)
(* Spec node states are symbolic: the encoder output followed by the       *)
(* identities of the layers applied to it.  In SpecAttn node states are    *)
(* one-dimensional integer vectors.                                        *)
(***************************************************************************)
EXTENDS Integers, Sequences, FiniteSets, TLC

VARIABLES
    config,     \* the configuration dictionary handed to build_model
    pc,         \* "config" before build_model, then "built" or "failed"
    net,        \* fields of the GraphEmbeddingNet / GraphMatchingNet object
    last,       \* the most recent call: its name, the exception it raised,
                \* the forward passes it made and the value it returned
    was_reset,  \* whether reset_n_prop_layers was ever called on the net
    a_in,       \* the arguments of the operation a specification other than
                \* Spec applies (in SpecAttn: of batch_block_pair_attention)
    a_out       \* the outcome of that operation

vars == <<config, pc, net, last, was_reset, a_in, a_out>>

(***************************************************************************)
(* Bounds of the model.                                                    *)
(***************************************************************************)
MaxLayers == 2      \* n_prop_layers of the configuration ranges over 0..MaxLayers
MaxReset == 3       \* reset_n_prop_layers arguments range over 0..MaxReset
MaxRows == 3        \* rows of the data tensor given to the attention function
MaxBlocks == 4      \* n_blocks ranges over 0..MaxBlocks

(***************************************************************************)
(* Program constants.                                                      *)
(***************************************************************************)
TrainingBatchSize == 20
EvaluationBatchSize == 20
UseReverseDirection == TRUE
ReverseDirParamDifferent == FALSE
LayerNorm == FALSE

NodeUpdateTypes == {"mlp", "residual", "gru"}
AGGREGATION_TYPE == {"sum", "mean", "sqrt_n", "max"}
PAIRWISE_SIMILARITY_FUNCTION == {"euclidean", "dotproduct", "cosine"}
ModelTypes == {"embedding", "matching"}
TrainingModes == {"pair", "triplet"}

\* A Python value used as n_graphs / n_blocks: an int, or something that is
\* not an instance of int (a float, a numpy integer, a tensor) with value val.
PyInt(v) == [isInt |-> TRUE, val |-> v]
NotInt(v) == [isInt |-> FALSE, val |-> v]

(***************************************************************************)
(* Symbolic node states of Spec.                                           *)
(***************************************************************************)
RawFeatures == [src |-> "placeholder", via |-> <<>>]

\* GraphEncoder._build: the node MLP applied to the raw node features.
GraphEncoder_build(node_features) == [node_features EXCEPT !.src = "encoder"]

\* AttentionArgError without the test `n_blocks % 2 != 0`.
AttentionArgError_NoParityTest(n_blocks, similarity) ==
    IF ~n_blocks.isInt THEN "ValueError"
    ELSE IF similarity \notin PAIRWISE_SIMILARITY_FUNCTION THEN "ValueError"
    ELSE "none"

\* The argument checks at the head of batch_block_pair_attention followed by
\* get_pairwise_similarity: the exception raised, or "none".
AttentionArgError(n_blocks, similarity) ==
    IF ~n_blocks.isInt THEN "ValueError"
    ELSE IF n_blocks.val % 2 # 0 THEN "ValueError"
    ELSE IF similarity \notin PAIRWISE_SIMILARITY_FUNCTION THEN "ValueError"
    ELSE "none"

\* GraphPropLayer._compute_aggregated_messages: the steps it performs.
ComputeAggregatedMessagesSteps ==
    <<"message_net", "segment_sum">>
    \o (IF UseReverseDirection
           THEN <<(IF ReverseDirParamDifferent THEN "reverse_message_net"
                                                ELSE "message_net"),
                  "segment_sum", "add">>
           ELSE <<>>)
    \o (IF LayerNorm THEN <<"layer_norm">> ELSE <<>>)

\* GraphPropLayer._compute_node_update on the layer `layer`: the steps it
\* performs, the exception it raises and the new node states.
ComputeNodeUpdate(node_update_type, layer, node_states) ==
    IF node_update_type = "gru"
    THEN [err |-> "none", steps |-> <<"gru">>,
          out |-> [node_states EXCEPT !.via = Append(@, layer)]]
    ELSE LET mlp == <<"node_mlp">> \o (IF LayerNorm THEN <<"layer_norm">> ELSE <<>>)
         IN  IF node_update_type = "mlp"
             THEN [err |-> "none", steps |-> mlp,
                   out |-> [node_states EXCEPT !.via = Append(@, layer)]]
             ELSE IF node_update_type = "residual"
             THEN [err |-> "none", steps |-> mlp \o <<"residual_add">>,
                   out |-> [node_states EXCEPT !.via = Append(@, layer)]]
             ELSE [err |-> "ValueError", steps |-> mlp, out |-> node_states]

\* GraphPropLayer._build.
GraphPropLayer_build(cfg, layer, node_states) ==
    LET upd == ComputeNodeUpdate(cfg.node_update_type, layer, node_states)
    IN  [upd EXCEPT !.steps = ComputeAggregatedMessagesSteps \o @]

\* GraphPropMatchingLayer._build.
GraphPropMatchingLayer_build(cfg, layer, node_states, n_graphs) ==
    LET e == AttentionArgError(n_graphs, cfg.similarity)
        upd == ComputeNodeUpdate(cfg.node_update_type, layer, node_states)
    IN  IF e # "none"
        THEN [err |-> e, steps |-> ComputeAggregatedMessagesSteps, out |-> node_states]
        ELSE [upd EXCEPT !.steps = ComputeAggregatedMessagesSteps
                                    \o <<"cross_graph_attention", "subtract">> \o @]

\* GraphEmbeddingNet._apply_layer / GraphMatchingNet._apply_layer.
ApplyLayer(cfg, layer, node_states, n_graphs) ==
    IF cfg.model_type = "matching"
    THEN GraphPropMatchingLayer_build(cfg, layer, node_states, n_graphs)
    ELSE GraphPropLayer_build(cfg, layer, node_states)

(***************************************************************************)
(* GraphEmbeddingNet / GraphMatchingNet.                                   *)
(***************************************************************************)

\* GraphEmbeddingNet.__init__ / GraphMatchingNet.__init__: the fields of a
\* fresh net.  n_built counts the layer objects constructed so far; a layer
\* is identified by its construction number.
NewNet(cfg) ==
    [n_prop_layers |-> cfg.n_prop_layers,
     prop_layers |-> <<>>,
     has_layer_outputs |-> FALSE,
     layer_outputs |-> <<>>,
     n_built |-> 0]

\* The loop `for i in range(self._n_prop_layers)` of GraphEmbeddingNet._build,
\* from iteration i on: _build_layer constructs a new layer, or the first
\* element of the list is appended again.
RECURSIVE BuildLayersLoop(_, _, _, _)
BuildLayersLoop(i, n, share, m) ==
    IF i >= n THEN m
    ELSE IF i = 0 \/ ~share
         THEN BuildLayersLoop(i + 1, n, share,
                  [m EXCEPT !.prop_layers = Append(@, m.n_built + 1),
                            !.n_built = @ + 1])
         ELSE BuildLayersLoop(i + 1, n, share,
                  [m EXCEPT !.prop_layers = Append(@, m.prop_layers[1])])

\* TooFewLayers with <= in place of <.
TooFewLayers_OrEqual(m) == Len(m.prop_layers) <= m.n_prop_layers

\* The test `len(self._prop_layers) < self._n_prop_layers`.
TooFewLayers(m) == Len(m.prop_layers) < m.n_prop_layers

\* The head of GraphEmbeddingNet._build: build the layers when fewer exist
\* than n_prop_layers asks for.
BuildLayers(cfg, m) ==
    IF TooFewLayers(m)
    THEN BuildLayersLoop(0, m.n_prop_layers, cfg.share_prop_params, m)
    ELSE m

\* The loop `for layer in self._prop_layers` of GraphEmbeddingNet._build from
\* position k on.  acc holds the node states, the list layer_outputs, the
\* steps performed so far and the exception raised.
RECURSIVE PropagationLoop(_, _, _, _, _)
PropagationLoop(cfg, layers, k, n_graphs, acc) ==
    IF k > Len(layers) THEN acc
    ELSE LET r == ApplyLayer(cfg, layers[k], acc.node_states, n_graphs)
         IN  IF r.err # "none"
             THEN [acc EXCEPT !.err = r.err, !.steps = @ \o r.steps]
             ELSE PropagationLoop(cfg, layers, k + 1, n_graphs,
                      [err |-> "none",
                       steps |-> acc.steps \o r.steps,
                       layer_outputs |-> Append(acc.layer_outputs, r.out),
                       node_states |-> r.out])

\* InitialLayerOutputs starting from the empty list.
InitialLayerOutputs_Empty(node_states) == <<>>

\* `layer_outputs = [node_states]`: the history starts with the encoder output.
InitialLayerOutputs(node_states) == <<node_states>>

\* GraphEmbeddingNet._build: one forward pass of the net m with n_graphs.
\* Yields the net afterwards and a record of the pass: the exception raised,
\* the steps performed in order, n_prop_layers and the layer list at entry,
\* the layer list applied, the local list layer_outputs when the pass ended,
\* the node states handed to the aggregator (none when it raised), n_graphs
\* and whether graph vectors were returned.
GraphEmbeddingNet_build(cfg, m, n_graphs) ==
    LET b == BuildLayers(cfg, m)
        enc == GraphEncoder_build(RawFeatures)
        run == PropagationLoop(cfg, b.prop_layers, 1, n_graphs,
                   [err |-> "none", steps |-> <<"encoder">>,
                    layer_outputs |-> InitialLayerOutputs(enc), node_states |-> enc])
        ok == run.err = "none"
    IN  [net |-> IF ok THEN [b EXCEPT !.has_layer_outputs = TRUE,
                                      !.layer_outputs = run.layer_outputs]
                       ELSE b,
         pass |-> [err |-> run.err,
                   steps |-> IF ok THEN run.steps \o <<"aggregator">> ELSE run.steps,
                   requested |-> m.n_prop_layers,
                   before |-> m.prop_layers,
                   layers |-> b.prop_layers,
                   layer_outputs |-> run.layer_outputs,
                   agg_input |-> IF ok THEN <<run.node_states>> ELSE <<>>,
                   n_graphs |-> n_graphs,
                   returned |-> ok]]

\* GraphEmbeddingNet.reset_n_prop_layers.
reset_n_prop_layers(m, n_prop_layers) == [m EXCEPT !.n_prop_layers = n_prop_layers]

\* A connection `model(**model_inputs)` within a caller that stops at the
\* first exception: st holds the net, the log and the exception raised so far.
Connect(cfg, st, n_graphs) ==
    IF st.err # "none" THEN st
    ELSE LET r == GraphEmbeddingNet_build(cfg, st.net, n_graphs)
         IN  [net |-> r.net, log |-> Append(st.log, r.pass), err |-> r.pass.err]

\* GraphAggregator.__init__: the lookup AGGREGATION_TYPE[aggregation_type].
GraphAggregator_init(aggregation_type) ==
    IF aggregation_type \in AGGREGATION_TYPE THEN "none" ELSE "KeyError"

\* build_model with config['training']['mode'] = mode: the exception it
\* raises ("none" when it returns), the net and the forward passes made.
build_model_result(cfg, mode) ==
    LET fresh == [net |-> NewNet(cfg), log |-> <<>>, err |-> "none"]
        training_n_graphs_in_batch ==
            IF mode = "pair" THEN TrainingBatchSize * 2 ELSE TrainingBatchSize * 4
    IN  IF GraphAggregator_init(cfg.aggregation_type) # "none"
        THEN [fresh EXCEPT !.err = GraphAggregator_init(cfg.aggregation_type)]
        ELSE IF cfg.model_type \notin ModelTypes
        THEN [fresh EXCEPT !.err = "ValueError"]
        ELSE IF mode \notin TrainingModes
        THEN [fresh EXCEPT !.err = "ValueError"]
        ELSE Connect(cfg,
                 Connect(cfg,
                     Connect(cfg, fresh, PyInt(training_n_graphs_in_batch)),
                     PyInt(EvaluationBatchSize * 2)),
                 PyInt(EvaluationBatchSize * 4))

(***************************************************************************)
(* Spec: the life cycle of one model object.                               *)
(***************************************************************************)
\* graph_embedding_net configurations carry no similarity entry; the model
\* gives them the default of graph_matching_net.
ConfigSpace ==
    { c \in [model_type : ModelTypes \cup {"other"},
             node_update_type : NodeUpdateTypes \cup {"other"},
             aggregation_type : {"sum", "max", "other"},
             similarity : {"dotproduct", "euclidean", "other"},
             n_prop_layers : 0..MaxLayers,
             share_prop_params : BOOLEAN] :
        c.model_type # "matching" => c.similarity = "dotproduct" }

\* n_graphs values a caller passes to a forward pass.
NGraphsInputs == {PyInt(2), PyInt(3), NotInt(2)}

NoAttention == [done |-> FALSE]

Call(op, err, passes, value) ==
    [op |-> op, err |-> err, passes |-> passes, value |-> value]

Init ==
    /\ config \in ConfigSpace
    /\ pc = "config"
    /\ net = NewNet(config)
    /\ last = Call("none", "none", <<>>, <<>>)
    /\ was_reset = FALSE
    /\ a_in = NoAttention
    /\ a_out = NoAttention

\* build_model(config, ...).
build_model ==
    /\ pc = "config"
    /\ \E mode \in TrainingModes \cup {"other"} :
         LET r == build_model_result(config, mode)
         IN  /\ net' = r.net
             /\ last' = Call("build_model", r.err, r.log, <<>>)
             /\ pc' = IF r.err = "none" THEN "built" ELSE "failed"
    /\ UNCHANGED <<config, was_reset, a_in, a_out>>

\* A caller constructs GraphEncoder, GraphAggregator and one of the two net
\* classes itself, without connecting the net.
Construct ==
    /\ pc = "config"
    /\ config.model_type \in ModelTypes
    /\ LET e == GraphAggregator_init(config.aggregation_type)
       IN  /\ last' = Call("construct", e, <<>>, <<>>)
           /\ pc' = IF e = "none" THEN "built" ELSE "failed"
    /\ net' = NewNet(config)
    /\ UNCHANGED <<config, was_reset, a_in, a_out>>

\* model(n_graphs=n_graphs, **model_inputs): one forward pass.
Forward ==
    /\ pc = "built"
    /\ \E n_graphs \in NGraphsInputs :
         LET r == GraphEmbeddingNet_build(config, net, n_graphs)
         IN  /\ net' = r.net
             /\ last' = Call("forward", r.pass.err, <<r.pass>>, <<>>)
    /\ UNCHANGED <<config, pc, was_reset, a_in, a_out>>

\* model.reset_n_prop_layers(n).
ResetNPropLayers ==
    /\ pc = "built"
    /\ \E n \in 0..MaxReset : net' = reset_n_prop_layers(net, n)
    /\ last' = Call("reset_n_prop_layers", "none", <<>>, <<>>)
    /\ was_reset' = TRUE
    /\ UNCHANGED <<config, pc, a_in, a_out>>

\* get_layer_outputs without the hasattr test.
get_layer_outputs_NoTest(m) == [err |-> "none", value |-> m.layer_outputs]

\* GraphEmbeddingNet.get_layer_outputs on the net m.
get_layer_outputs(m) ==
    IF m.has_layer_outputs
    THEN [err |-> "none", value |-> m.layer_outputs]
    ELSE [err |-> "ValueError", value |-> <<>>]

\* model.get_layer_outputs().
GetLayerOutputs ==
    /\ pc = "built"
    /\ last' = Call("get_layer_outputs", get_layer_outputs(net).err, <<>>,
                    get_layer_outputs(net).value)
    /\ UNCHANGED <<config, pc, net, was_reset, a_in, a_out>>

Next ==
    \/ build_model
    \/ Construct
    \/ Forward
    \/ ResetNPropLayers
    \/ GetLayerOutputs

Spec == Init /\ [][Next]_vars

(***************************************************************************)
(* Cross-graph attention on one-dimensional integer node states.           *)
(*                                                                         *)
(* A row of a tensor is [row |-> r, val |-> v]: the value v that stood at  *)
(* position r of the tensor handed to batch_block_pair_attention.  exp is  *)
(* taken to base 2 and a softmax weight is kept as its integer numerator   *)
(* over the sum of the numerators of its row (or column), so that all      *)
(* arithmetic is exact.                                                    *)
(***************************************************************************)
RECURSIVE Pow2(_)
Pow2(n) == IF n <= 0 THEN 1 ELSE 2 * Pow2(n - 1)

RECURSIVE SeqSum(_)
SeqSum(q) == IF q = <<>> THEN 0 ELSE Head(q) + SeqSum(Tail(q))

Sign(v) == IF v > 0 THEN 1 ELSE IF v < 0 THEN -1 ELSE 0

\* pairwise_euclidean_similarity, entry (x, y): 2xy - x^2 - y^2.
pairwise_euclidean_similarity(x, y) == 2 * (x * y) - x * x - y * y

\* pairwise_dot_product_similarity, entry (x, y).
pairwise_dot_product_similarity(x, y) == x * y

\* pairwise_cosine_similarity, entry (x, y): both sides l2-normalized, which
\* in one dimension leaves the sign.
pairwise_cosine_similarity(x, y) == Sign(x) * Sign(y)

\* get_pairwise_similarity(name) applied to the entry (x, y).
Similarity(name, x, y) ==
    CASE name = "euclidean" -> pairwise_euclidean_similarity(x, y)
      [] name = "dotproduct" -> pairwise_dot_product_similarity(x, y)
      [] name = "cosine" -> pairwise_cosine_similarity(x, y)

\* Node state values of the attention inputs.
DataVals == {-1, 1, 2}

\* exp(s) is Pow2(s + ExpShift): ExpShift is the negated smallest similarity
\* of two values of DataVals, the euclidean similarity of its extremes.
ExpShift ==
    LET lo == CHOOSE v \in DataVals : \A u \in DataVals : v <= u
        hi == CHOOSE v \in DataVals : \A u \in DataVals : v >= u
    IN  (hi - lo) * (hi - lo)

Exp(s) == Pow2(s + ExpShift)

\* One row of an attention output: the weighted sum num / den of the values
\* of the rows `from`, with the weight numerators w (den is their sum).
AttentionRow(w, others) ==
    [num |-> SeqSum([j \in 1..Len(others) |-> w[j] * others[j].val]),
     den |-> SeqSum(w),
     from |-> [j \in 1..Len(others) |-> others[j].row],
     w |-> w]

\* compute_cross_attention with each side attending to itself.
compute_cross_attention_Self(x, y, sim) ==
    <<[i \in 1..Len(x) |->
          AttentionRow([j \in 1..Len(x) |-> Exp(Similarity(sim, x[i].val, x[j].val))], x)],
      [j \in 1..Len(y) |->
          AttentionRow([i \in 1..Len(y) |-> Exp(Similarity(sim, y[i].val, y[j].val))], y)]>>

\* compute_cross_attention(x, y, sim): a = sim(x, y); a_x = softmax(a, axis=1),
\* a_y = softmax(a, axis=0); attention_x = a_x y, attention_y = a_y^T x.
compute_cross_attention(x, y, sim) ==
    LET a == [i \in 1..Len(x) |-> [j \in 1..Len(y) |-> Similarity(sim, x[i].val, y[j].val)]]
        attention_x == [i \in 1..Len(x) |->
                           AttentionRow([j \in 1..Len(y) |-> Exp(a[i][j])], y)]
        attention_y == [j \in 1..Len(y) |->
                           AttentionRow([i \in 1..Len(x) |-> Exp(a[i][j])], x)]
    IN  <<attention_x, attention_y>>

\* tf.dynamic_partition(data, block_idx, n_blocks)[b]: the rows tagged b, in
\* the order they have in data.
RECURSIVE Partition(_, _, _, _)
Partition(data, block_idx, b, k) ==
    IF k > Len(data) THEN <<>>
    ELSE (IF block_idx[k] = b THEN <<[row |-> k, val |-> data[k]]>> ELSE <<>>)
         \o Partition(data, block_idx, b, k + 1)

\* The loop `for i in range(0, n_blocks, 2)` of batch_block_pair_attention
\* from block i on, followed by the concatenation of results.
RECURSIVE PairLoop(_, _, _, _, _)
PairLoop(data, block_idx, n_blocks, sim, i) ==
    IF i >= n_blocks THEN [err |-> "none", out |-> <<>>]
    ELSE IF i + 1 >= n_blocks THEN [err |-> "IndexError", out |-> <<>>]
    ELSE LET att == compute_cross_attention(Partition(data, block_idx, i, 1),
                                            Partition(data, block_idx, i + 1, 1), sim)
             rest == PairLoop(data, block_idx, n_blocks, sim, i + 2)
         IN  IF rest.err # "none" THEN rest
             ELSE [err |-> "none", out |-> att[1] \o att[2] \o rest.out]

\* batch_block_pair_attention(data, block_idx, n_blocks, similarity).
batch_block_pair_attention(data, block_idx, n_blocks, similarity) ==
    IF AttentionArgError(n_blocks, similarity) # "none"
    THEN [err |-> AttentionArgError(n_blocks, similarity), out |-> <<>>]
    ELSE PairLoop(data, block_idx, n_blocks.val, similarity, 0)

(***************************************************************************)
(* SpecAttn: batch_block_pair_attention applied to bounded inputs.         *)
(***************************************************************************)
SeqsOver(S, n) == UNION { [1..k -> S] : k \in 0..n }

AttentionInputs ==
    { [done |-> TRUE, data |-> d, block_idx |-> b, n_blocks |-> nb, similarity |-> sm] :
        <<d, b, nb, sm>> \in
          { t \in SeqsOver(DataVals, MaxRows) \X SeqsOver(0..(MaxBlocks - 1), MaxRows)
                  \X ({PyInt(v) : v \in 1..MaxBlocks} \cup {NotInt(2)})
                  \X (PAIRWISE_SIMILARITY_FUNCTION \cup {"other"}) :
              /\ Len(t[1]) = Len(t[2])
              /\ \A k \in 1..Len(t[2]) : t[2][k] < t[3].val } }

InitAttn ==
    /\ config = CHOOSE c \in ConfigSpace : TRUE
    /\ pc = "attention"
    /\ net = NewNet(config)
    /\ last = Call("none", "none", <<>>, <<>>)
    /\ was_reset = FALSE
    /\ a_in \in AttentionInputs
    /\ a_out = NoAttention

\* One call batch_block_pair_attention(data, block_idx, n_blocks, similarity).
Attend ==
    /\ ~a_out.done
    /\ LET r == batch_block_pair_attention(a_in.data, a_in.block_idx,
                                           a_in.n_blocks, a_in.similarity)
       IN  a_out' = [done |-> TRUE, err |-> r.err, out |-> r.out]
    /\ UNCHANGED <<config, pc, net, last, was_reset, a_in>>

NextAttn == Attend

SpecAttn == InitAttn /\ [][NextAttn]_vars

(***************************************************************************)
(* Properties of Spec.                                                     *)
(***************************************************************************)
\* The forward passes made by the most recent call.
PassesOfLast == { last.passes[k] : k \in 1..Len(last.passes) }

\* Rounds of a pass: the node updates it performed.
Rounds(p) == Cardinality({ k \in 1..Len(p.steps) : p.steps[k] \in {"gru", "node_mlp"} })

LayerSet(layers) == { layers[k] : k \in 1..Len(layers) }

\* C1: once T layers exist, a forward pass entered with n_prop_layers = T' < T
\* (after reset_n_prop_layers(T')) that returns has applied exactly T' rounds,
\* its layer-output history has length T' + 1, and it has built no layer.
C1_ShrinkAppliesRequestedRounds ==
    \A p \in PassesOfLast :
        (p.returned /\ p.requested < Len(p.before))
            => /\ Rounds(p) = p.requested
               /\ Len(p.layer_outputs) = p.requested + 1
               /\ p.layers = p.before

C3_GrowSharedReusesTheLayer ==
    \A p \in PassesOfLast :
        (config.share_prop_params /\ Len(p.before) >= 1 /\ p.requested > Len(p.before)
           /\ p.returned)
            => /\ Rounds(p) = p.requested
               /\ LayerSet(p.layers) = {p.before[1]}

\* Some configured name is outside the supported set.
UnknownName(cfg) ==
    \/ cfg.node_update_type \notin NodeUpdateTypes
    \/ cfg.aggregation_type \notin AGGREGATION_TYPE
    \/ cfg.model_type \notin ModelTypes
    \/ cfg.model_type = "matching" /\ cfg.similarity \notin PAIRWISE_SIMILARITY_FUNCTION

\* C7: with an unknown update-rule, reduction, similarity or model-variant
\* name, build_model ends in an error and no forward pass returns graph vectors.
C7_UnknownNameEndsInError ==
    UnknownName(config)
        => /\ last.op = "build_model" => last.err # "none"
           /\ \A p \in PassesOfLast : ~p.returned

\* C8: the error for an unknown name is raised before any computation step:
\* a forward pass that raises on an even integer n_graphs (so that the name
\* is the cause) has performed no step, and an unknown reduction or model
\* variant lets build_model make no forward pass.
C8_ErrorBeforeAnyComputation ==
    /\ \A p \in PassesOfLast :
          (p.err # "none" /\ p.n_graphs.isInt /\ p.n_graphs.val % 2 = 0)
              => p.steps = <<>>
    /\ (last.op = "build_model"
          /\ (config.aggregation_type \notin AGGREGATION_TYPE
                \/ config.model_type \notin ModelTypes))
          => last.passes = <<>>

\* The last forward pass of the most recent call returned graph vectors.
LastPassReturned ==
    /\ last.op \in {"forward", "build_model"}
    /\ last.passes # <<>>
    /\ last.passes[Len(last.passes)].returned

\* C9: after a forward pass that returned, get_layer_outputs() gives a
\* sequence of length rounds + 1 that starts with the encoder output, whose
\* element t + 1 is the state round t produced from element t, and whose last
\* element is the node state handed to the graph aggregator.
C9_LayerOutputsHistory ==
    LastPassReturned =>
        LET p == last.passes[Len(last.passes)]
            h == get_layer_outputs(net)
        IN  /\ h.err = "none"
            /\ Len(h.value) = Rounds(p) + 1
            /\ h.value[1] = GraphEncoder_build(RawFeatures)
            /\ \A t \in 1..Rounds(p) :
                  h.value[t + 1] = ApplyLayer(config, p.layers[t], h.value[t], p.n_graphs).out
            /\ <<h.value[Len(h.value)]>> = p.agg_input

C9_Witness ==
    /\ LastPassReturned
    /\ last.op = "forward"
    /\ Rounds(last.passes[1]) = 3
    /\ was_reset

\* C10: in a net that was never reset, every forward pass applies the layer
\* list of length n_prop_layers (and performs that many rounds when it
\* returns); the list holds one layer object when parameters are shared and
\* n_prop_layers distinct ones otherwise; a pass that finds layers built
\* applies exactly those, and no further layer is ever constructed.
C10_NoResetBuildsOnce ==
    ~was_reset =>
        /\ net.n_built = Cardinality(LayerSet(net.prop_layers))
        /\ \A p \in PassesOfLast :
              /\ Len(p.layers) = config.n_prop_layers
              /\ p.returned => Rounds(p) = config.n_prop_layers
              /\ config.share_prop_params => Cardinality(LayerSet(p.layers)) <= 1
              /\ ~config.share_prop_params
                    => Cardinality(LayerSet(p.layers)) = config.n_prop_layers
              /\ p.before # <<>> => p.layers = p.before

C10_Witness ==
    /\ ~was_reset
    /\ last.op = "forward"
    /\ last.passes[1].returned
    /\ last.passes[1].before # <<>>
    /\ config.n_prop_layers = 2
    /\ ~config.share_prop_params

\* The forward passes of a call that returned graph vectors, by position.
ReturnedPasses(call) == { k \in 1..Len(call.passes) : call.passes[k].returned }

\* What a step does to the answer of get_layer_outputs(): a call that made a
\* forward pass which returned leaves the history of the last such pass;
\* every other call leaves the answer as it was, and a call of
\* get_layer_outputs() gives that answer.
LayerOutputsStep ==
    LET before == get_layer_outputs(net)
        after == get_layer_outputs(net')
    IN  IF last'.op \in {"forward", "build_model"} /\ ReturnedPasses(last') # {}
        THEN LET k == CHOOSE i \in ReturnedPasses(last') :
                          \A j \in ReturnedPasses(last') : i >= j
             IN  after = [err |-> "none", value |-> last'.passes[k].layer_outputs]
        ELSE /\ after = before
             /\ last'.op = "get_layer_outputs" =>
                    (last'.err = before.err /\ last'.value = before.value)

AttentionReturned == a_out.done /\ a_out.err = "none"

\* Positions of the rows of data tagged b.
RowsOf(b) == { k \in 1..Len(a_in.data) : a_in.block_idx[k] = b }

\* The block a row of block b attends to.
Partner(b) == IF b % 2 = 0 THEN b + 1 ELSE b - 1

\* The attention vector of input row k, from the definition: the softmax
\* over the rows of the partner block of the similarities to row k.
AttentionOfRow(k) ==
    LET others == Partition(a_in.data, a_in.block_idx, Partner(a_in.block_idx[k]), 1)
        simTo(j) == IF a_in.block_idx[k] % 2 = 0
                    THEN Similarity(a_in.similarity, a_in.data[k], others[j].val)
                    ELSE Similarity(a_in.similarity, others[j].val, a_in.data[k])
    IN  AttentionRow([j \in 1..Len(others) |-> Exp(simTo(j))], others)

\* Two attention rows hold the same vector num / den.
SameVector(r, q) ==
    /\ (r.den = 0) = (q.den = 0)
    /\ r.num * q.den = q.num * r.den

\* C4: the output has one row per input row and output row k is the
\* attention vector of input row k, for every block_idx with values in
\* [0, n_blocks), sorted or not.
C4_OutputMirrorsInputOrder ==
    AttentionReturned =>
        /\ Len(a_out.out) = Len(a_in.data)
        /\ \A k \in 1..Len(a_in.data) : SameVector(a_out.out[k], AttentionOfRow(k))

\* Number of rows tagged with a block below b: where block b starts in the
\* concatenated result.
RowsBelow(b) == Cardinality({ k \in 1..Len(a_in.data) : a_in.block_idx[k] < b })

\* An attention row combines exactly the rows at the positions S, with
\* positive weights that are normalized over them.
CombinesExactly(r, S) ==
    /\ Len(r.from) = Cardinality(S)
    /\ { r.from[j] : j \in 1..Len(r.from) } = S
    /\ Len(r.w) = Len(r.from)
    /\ \A j \in 1..Len(r.w) : r.w[j] > 0
    /\ r.den = SeqSum(r.w)
    /\ r.num = SeqSum([j \in 1..Len(r.w) |-> r.w[j] * a_in.data[r.from[j]]])

\* C5: for every pair (2i, 2i+1) with N and M rows the result holds, from the
\* position where block 2i starts, N rows that each combine exactly the M
\* rows of block 2i+1 with weights normalized over them, followed by M rows
\* that each combine exactly the N rows of block 2i.
C5_PairwiseAttention ==
    AttentionReturned =>
        /\ Len(a_out.out) = Len(a_in.data)
        /\ \A b \in 0..(a_in.n_blocks.val - 1) :
              \A k \in 1..Cardinality(RowsOf(b)) :
                  CombinesExactly(a_out.out[RowsBelow(b) + k], RowsOf(Partner(b)))

C5_Witness ==
    /\ AttentionReturned
    /\ a_in.n_blocks = PyInt(4)
    /\ Cardinality(RowsOf(2)) = 1
    /\ Cardinality(RowsOf(3)) = 2
    /\ a_in.block_idx[1] = 3

\* C6: an odd n_blocks, and an n_blocks that is not an int, make
\* batch_block_pair_attention raise ValueError without any attention output.
C6_OddOrNonIntegerRaises ==
    (a_out.done /\ (~a_in.n_blocks.isInt \/ a_in.n_blocks.val % 2 # 0))
        => a_out.err = "ValueError" /\ a_out.out = <<>>

C6_Witness ==
    /\ a_out.done
    /\ a_in.n_blocks = PyInt(3)
    /\ a_in.similarity = "dotproduct"
    /\ Len(a_in.data) = 3
    /\ a_out.err = "ValueError"

(***************************************************************************)
(* Propagation layers on one-dimensional integer node states.              *)
(*                                                                         *)
(* Nodes are numbered from 0 and a node-state tensor is a function on      *)
(* 0..n_nodes-1; edge k runs from from_idx[k] to to_idx[k] and carries     *)
(* edge_features[k].  A feed-forward network is a fixed function of its    *)
(* concatenated input: a bias plus a weighted sum, with the weights of the *)
(* network's parameter record.                                             *)
(***************************************************************************)
MaxNodes == 2       \* graphs given to a propagation layer have 1..MaxNodes nodes
MaxEdges == 2       \* and 0..MaxEdges edges

\* snt.nets.MLP with parameters p applied to the concatenated input x.
MLP(p, x) == p.b + SeqSum([k \in 1..Len(x) |-> p.w[k] * x[k]])

\* snt.GRU with parameters p, input x and carried state h.
GRU(p, x, h) == p.b + p.wh * h + SeqSum([k \in 1..Len(x) |-> p.w[k] * x[k]])

\* The parameters of the propagation layers, one record per layer:
\* message-mlp, reverse-message-mlp (used when reverse_dir_param_different),
\* node-mlp and the GRU.
PropParams ==
    << [message |-> [w |-> <<1, 2, 1>>, b |-> 1],
        reverse |-> [w |-> <<2, 1, 3>>, b |-> 0],
        node    |-> [w |-> <<1, 2>>, b |-> 1],
        gru     |-> [w |-> <<1>>, wh |-> 2, b |-> 0]],
       [message |-> [w |-> <<2, 1, 1>>, b |-> 0],
        reverse |-> [w |-> <<1, 1, 2>>, b |-> 1],
        node    |-> [w |-> <<2, 1>>, b |-> 0],
        gru     |-> [w |-> <<2>>, wh |-> 1, b |-> 1]] >>

\* tf.unsorted_segment_sum(data, segment_ids, num_segments): row v is the sum
\* of the rows k of data with segment_ids[k] = v, accumulated in the order of
\* data; a segment without rows is 0.
RECURSIVE SegmentSumFrom(_, _, _, _)
SegmentSumFrom(data, segment_ids, acc, k) ==
    IF k > Len(data) THEN acc
    ELSE SegmentSumFrom(data, segment_ids,
                        [acc EXCEPT ![segment_ids[k]] = @ + data[k]], k + 1)

unsorted_segment_sum(data, segment_ids, num_segments) ==
    SegmentSumFrom(data, segment_ids, [v \in 0..(num_segments - 1) |-> 0], 1)

\* graph_prop_once summing every message into the from-node of its edge.
graph_prop_once_IntoFromNodes(node_states, from_idx, to_idx, message_net, edge_features) ==
    LET messages == [k \in 1..Len(from_idx) |->
                        MLP(message_net, <<node_states[from_idx[k]],
                                           node_states[to_idx[k]],
                                           edge_features[k]>>)]
    IN  unsorted_segment_sum(messages, from_idx, Cardinality(DOMAIN node_states))

\* graph_prop_once: gather the states of both endpoints of every edge, apply
\* message_net to [from_state, to_state, edge_feature], sum into the to-nodes.
graph_prop_once(node_states, from_idx, to_idx, message_net, edge_features) ==
    LET messages == [k \in 1..Len(from_idx) |->
                        MLP(message_net, <<node_states[from_idx[k]],
                                           node_states[to_idx[k]],
                                           edge_features[k]>>)]
    IN  unsorted_segment_sum(messages, to_idx, Cardinality(DOMAIN node_states))

\* The second pass made with the endpoints in their forward order.
ReversePass_SameDirection(g, node_states, reverse_net) ==
    graph_prop_once(node_states, g.from_idx, g.to_idx, reverse_net, g.edge_features)

\* The second pass of _compute_aggregated_messages: graph_prop_once with
\* from_idx and to_idx exchanged.
ReversePass(g, node_states, reverse_net) ==
    graph_prop_once(node_states, g.to_idx, g.from_idx, reverse_net, g.edge_features)

\* GraphPropLayer._compute_aggregated_messages with the layer parameters p
\* on the graph g (layer_norm off).
compute_aggregated_messages(p, g, node_states) ==
    LET forward == graph_prop_once(node_states, g.from_idx, g.to_idx,
                                   p.message, g.edge_features)
        reverse_net == IF g.reverse_dir_param_different THEN p.reverse ELSE p.message
        reverse == ReversePass(g, node_states, reverse_net)
    IN  IF g.use_reverse_direction
        THEN [v \in DOMAIN node_states |-> forward[v] + reverse[v]]
        ELSE forward

\* GraphPropLayer._compute_node_update (no extra node features): 'mlp' and
\* 'residual' concatenate the old state to the aggregated messages.
compute_node_update(p, node_update_type, node_states, aggregated) ==
    [v \in DOMAIN node_states |->
        LET node_state_inputs ==
                <<aggregated[v]>>
                \o (IF node_update_type \in {"mlp", "residual"}
                       THEN <<node_states[v]>> ELSE <<>>)
        IN  IF node_update_type = "gru"
            THEN GRU(p.gru, node_state_inputs, node_states[v])
            ELSE LET mlp_output == MLP(p.node, node_state_inputs)
                 IN  IF node_update_type = "mlp" THEN mlp_output
                     ELSE node_states[v] + mlp_output]

\* A layer that updates the nodes one after the other, each from the states
\* left by the updates before it.
RECURSIVE InPlaceFrom(_, _, _, _)
InPlaceFrom(p, g, node_states, v) ==
    IF v \notin DOMAIN node_states THEN node_states
    ELSE LET agg == compute_aggregated_messages(p, g, node_states)
             new == compute_node_update(p, g.node_update_type, node_states, agg)
         IN  InPlaceFrom(p, g, [node_states EXCEPT ![v] = new[v]], v + 1)

GraphPropLayer_apply_InPlace(p, g, node_states) ==
    [aggregated |-> compute_aggregated_messages(p, g, node_states),
     node_states |-> InPlaceFrom(p, g, node_states, 0)]

\* GraphPropLayer._build on numeric states: the aggregated messages and the
\* new node states.
GraphPropLayer_apply(p, g, node_states) ==
    LET aggregated == compute_aggregated_messages(p, g, node_states)
    IN  [aggregated |-> aggregated,
         node_states |-> compute_node_update(p, g.node_update_type,
                                             node_states, aggregated)]

(***************************************************************************)
(* SpecProp: the propagation layers of one forward pass applied, round     *)
(* after round, to a bounded graph.                                        *)
(***************************************************************************)
NodeVals == {0, 1}

\* The arguments of a forward pass over a graph of n nodes and k edges: the
\* encoded node states h, the edges f[j] -> t[j], the setting rd of
\* use_reverse_direction and reverse_dir_param_different, and the node update
\* type u.  Every edge carries the same embedded feature, as in the batches
\* of _pack_batch, whose edge features are all ones.
PropInput(n, k, h, f, t, rd, u) ==
    [n_nodes |-> n, node_states |-> h, from_idx |-> f, to_idx |-> t,
     edge_features |-> [j \in 1..k |-> 1],
     use_reverse_direction |-> rd[1], reverse_dir_param_different |-> rd[2],
     node_update_type |-> u]

InitProp ==
    /\ config = CHOOSE c \in ConfigSpace : TRUE
    /\ pc = "propagation"
    /\ net = NewNet(config)
    /\ last = Call("none", "none", <<>>, <<>>)
    /\ was_reset = FALSE
    /\ \E n \in 1..MaxNodes, k \in 0..MaxEdges :
         \E h \in [0..(n - 1) -> NodeVals],
            f \in [1..k -> 0..(n - 1)], t \in [1..k -> 0..(n - 1)],
            rd \in {<<FALSE, FALSE>>, <<TRUE, FALSE>>, <<TRUE, TRUE>>},
            u \in NodeUpdateTypes :
           a_in = PropInput(n, k, h, f, t, rd, u)
    /\ a_out = [round |-> 0, prev |-> a_in.node_states,
                aggregated |-> [v \in DOMAIN a_in.node_states |-> 0],
                node_states |-> a_in.node_states]

\* One iteration of the loop over the propagation layers in
\* GraphEmbeddingNet._build: node_states = layer(node_states, ...).
Propagate ==
    /\ a_out.round < Len(PropParams)
    /\ LET r == GraphPropLayer_apply(PropParams[a_out.round + 1], a_in, a_out.node_states)
       IN  a_out' = [round |-> a_out.round + 1, prev |-> a_out.node_states,
                     aggregated |-> r.aggregated, node_states |-> r.node_states]
    /\ UNCHANGED <<config, pc, net, last, was_reset, a_in>>

NextProp == Propagate

SpecProp == InitProp /\ [][NextProp]_vars

(***************************************************************************)
(* Properties of SpecProp.                                                 *)
(***************************************************************************)
RECURSIVE SumOver(_, _)
SumOver(S, f) ==
    IF S = {} THEN 0
    ELSE LET x == CHOOSE y \in S : TRUE IN f[x] + SumOver(S \ {x}, f)

\* The edges of the graph, by position.
EdgeIds == 1..Len(a_in.from_idx)

\* The parameters of the layer applied in the latest round.
RoundParams == PropParams[a_out.round]

\* The network that computes the reverse messages of the latest round.
ReverseNet ==
    IF a_in.reverse_dir_param_different THEN RoundParams.reverse ELSE RoundParams.message

\* The message edge k sends to its to-node, and the one it sends back to its
\* from-node, both computed from the node states h.
ForwardMessage(h, k) ==
    MLP(RoundParams.message,
        <<h[a_in.from_idx[k]], h[a_in.to_idx[k]], a_in.edge_features[k]>>)

ReverseMessage(h, k) ==
    MLP(ReverseNet,
        <<h[a_in.to_idx[k]], h[a_in.from_idx[k]], a_in.edge_features[k]>>)

\* The sum of the contributions node v receives when all messages are
\* computed from the node states h: each edge contributes its forward
\* message if it ends in v and, when use_reverse_direction is set, its
\* reverse message if it starts in v.
Contributions(h, v) ==
    SeqSum([k \in EdgeIds |->
              (IF a_in.to_idx[k] = v THEN ForwardMessage(h, k) ELSE 0)
              + (IF a_in.use_reverse_direction /\ a_in.from_idx[k] = v
                    THEN ReverseMessage(h, k) ELSE 0)])

\* The permutations of the edge positions, and the graph with its edges in
\* the order pi.
EdgeOrders ==
    { pi \in [EdgeIds -> EdgeIds] : \A i, j \in EdgeIds : pi[i] = pi[j] => i = j }

Reordered(pi) ==
    [a_in EXCEPT !.from_idx = [k \in EdgeIds |-> a_in.from_idx[pi[k]]],
                 !.to_idx = [k \in EdgeIds |-> a_in.to_idx[pi[k]]],
                 !.edge_features = [k \in EdgeIds |-> a_in.edge_features[pi[k]]]]

\* C11: after every round, the new state of every node is the node update
\* applied to that node's state of the previous round and to the messages
\* computed from the previous round's states of all nodes, and the layer
\* gives the same node states whatever the order of the edges.
C11_RoundReadsPreviousRound ==
    a_out.round > 0 =>
        /\ a_out.node_states =
               compute_node_update(RoundParams, a_in.node_update_type, a_out.prev,
                                   [v \in DOMAIN a_out.prev |-> Contributions(a_out.prev, v)])
        /\ \A pi \in EdgeOrders :
               GraphPropLayer_apply(RoundParams, Reordered(pi), a_out.prev).node_states
                   = a_out.node_states

\* C11 witness: a second round over an edge whose from-node comes before its
\* to-node and changed its state in that round.
C11_Witness ==
    /\ a_out.round = 2
    /\ \E k \in EdgeIds :
         /\ a_in.from_idx[k] < a_in.to_idx[k]
         /\ a_out.prev[a_in.from_idx[k]] # a_out.node_states[a_in.from_idx[k]]
    /\ Len(a_in.from_idx) >= 2

\* Node v is the to-node of no edge.
NoIncomingEdge(v) == \A k \in EdgeIds : a_in.to_idx[k] # v

\* Node v is the from-node of no edge.
NoOutgoingEdge(v) == \A k \in EdgeIds : a_in.from_idx[k] # v

\* C12 as claimed: a node that is the to-node of no edge has a zero aggregated
\* message, whatever use_reverse_direction is.
C12_NoIncomingEdgeGivesZero ==
    a_out.round > 0 =>
        \A v \in DOMAIN a_out.aggregated : NoIncomingEdge(v) => a_out.aggregated[v] = 0

\* C12 amended: a node that is the to-node of no edge and, when
\* use_reverse_direction is set, the from-node of no edge either, has a zero
\* aggregated message.
C12_NoMessageGivesZero ==
    a_out.round > 0 =>
        \A v \in DOMAIN a_out.aggregated :
            (NoIncomingEdge(v) /\ (a_in.use_reverse_direction => NoOutgoingEdge(v)))
                => a_out.aggregated[v] = 0

\* C12 witness: a round over a graph with edges in which a node without
\* incoming edges has outgoing ones, use_reverse_direction unset.
C12_Witness ==
    /\ a_out.round > 0
    /\ ~a_in.use_reverse_direction
    /\ \E v \in DOMAIN a_out.aggregated :
         NoIncomingEdge(v) /\ ~NoOutgoingEdge(v) /\ a_out.aggregated[v] = 0

C14_MlpIgnoresOldState ==
    (a_out.round > 0 /\ a_in.node_update_type = "mlp") =>
        \A v, w \in DOMAIN a_out.node_states :
            a_out.aggregated[v] = a_out.aggregated[w]
                => a_out.node_states[v] = a_out.node_states[w]

(***************************************************************************)
(* The graph edit distance datasets.                                       *)
(*                                                                         *)
(* A networkx graph is [n_nodes, edges, labels]: its nodes are             *)
(* 0..n_nodes-1, edges is its set of edges, each a pair <<u, v>> with      *)
(* u < v, and labels maps each node to its 'label' attribute (the empty    *)
(* sequence when the nodes carry none).  g.edges() lists every edge once,  *)
(* from its endpoint that comes first in node order.                       *)
(***************************************************************************)
MaxBatch == 2       \* batch_size ranges over 0..MaxBatch

Graph(n, E, labels) == [n_nodes |-> n, edges |-> E, labels |-> labels]

NodePairs(n) == { e \in (0..(n - 1)) \X (0..(n - 1)) : e[1] < e[2] }

EdgeOf(u, v) == IF u < v THEN <<u, v>> ELSE <<v, u>>

\* The nodes reachable from the nodes of S along the edges E.
RECURSIVE Reachable(_, _)
Reachable(S, E) ==
    LET T == S \cup { e[2] : e \in { d \in E : d[1] \in S } }
                \cup { e[1] : e \in { d \in E : d[2] \in S } }
    IN  IF T = S THEN S ELSE Reachable(T, E)

\* nx.is_connected(g).
is_connected(g) == Reachable({0}, g.edges) = 0..(g.n_nodes - 1)

\* list(g.edges()): the edges in ascending order.
RECURSIVE EdgeList(_)
EdgeList(E) ==
    IF E = {} THEN <<>>
    ELSE LET e == CHOOSE x \in E : \A y \in E : x[1] < y[1] \/ (x[1] = y[1] /\ x[2] <= y[2])
         IN  <<e>> \o EdgeList(E \ {e})

\* The values of np.random.permutation(n).
NodePermutations(n) ==
    { f \in [0..(n - 1) -> 0..(n - 1)] : \A x, y \in 0..(n - 1) : f[x] = f[y] => x = y }

\* The graph permute_graph_nodes(g) returns when it draws perm: edge (x, y)
\* becomes (perm[x], perm[y]) and the label of node i is copied to node i.
PermutedGraph(g, perm) ==
    Graph(g.n_nodes, { EdgeOf(perm[e[1]], perm[e[2]]) : e \in g.edges }, g.labels)

\* permute_graph_nodes(g): the graphs it can return, one for each value of
\* np.random.permutation(n).
permute_graph_nodes(g) == { PermutedGraph(g, perm) : perm \in NodePermutations(g.n_nodes) }

\* The outcome of a call that raised the exception err, or never returned
\* (err = "hang"), and the outcome of one that returned value.
Raised(err) == [err |-> err]
Returned(value) == [err |-> "none", value |-> value]

\* substitute_random_edges(g, n): its possible outcomes.  np.random.choice
\* without replacement raises ValueError when n exceeds the number of edges;
\* the while loop never ends when fewer than n node pairs are free.
substitute_random_edges(g, n) ==
    LET free == NodePairs(g.n_nodes) \ g.edges
    IN  IF n > Cardinality(g.edges) THEN {Raised("ValueError")}
        ELSE IF n > Cardinality(free) THEN {Raised("hang")}
        ELSE { Returned(Graph(g.n_nodes, (g.edges \ e_remove) \cup e_add, g.labels)) :
                 e_remove \in { R \in SUBSET g.edges : Cardinality(R) = n },
                 e_add \in { A \in SUBSET free : Cardinality(A) = n } }

\* The graphs handed to KnowledgeGraphEditDistanceDataset, already converted
\* to networkx: a single node, an edge, a path and a triangle.
KnowledgeGraphs ==
    { Graph(1, {}, [v \in 0..0 |-> "a"]),
      Graph(2, {<<0, 1>>}, [v \in 0..1 |-> IF v = 0 THEN "a" ELSE "b"]),
      Graph(3, {<<0, 1>>, <<1, 2>>}, [v \in 0..2 |-> IF v = 1 THEN "a" ELSE "b"]),
      Graph(3, {<<0, 1>>, <<0, 2>>, <<1, 2>>}, [v \in 0..2 |-> IF v = 2 THEN "a" ELSE "b"]) }

\* _get_graph of the dataset ds: its possible outcomes.
\* GraphEditDistanceDataset draws a connected Erdos-Renyi graph with n_min to
\* n_max nodes and raises ValueError when a hundred draws give none;
\* KnowledgeGraphEditDistanceDataset picks one of its graphs.
get_graph(ds) ==
    IF ds.cls = "GraphEditDistanceDataset"
    THEN { Returned(g) :
             g \in { h \in UNION { { Graph(n, E, <<>>) : E \in SUBSET NodePairs(n) } :
                                     n \in ds.n_min..ds.n_max } : is_connected(h) } }
         \cup {Raised("ValueError")}
    ELSE { Returned(g) : g \in KnowledgeGraphs }

\* _get_pair(positive): its possible outcomes; a returned value holds the
\* base graph and the pair (permuted_g, changed_g).
get_pair(ds, positive) ==
    UNION { IF b.err # "none" THEN {b}
            ELSE LET g == b.value
                     n_changes == IF positive THEN ds.k_pos ELSE ds.k_neg
                 IN  UNION { { IF c.err # "none" THEN c
                               ELSE Returned([base |-> g, graphs |-> <<pg, c.value>>]) :
                                 c \in substitute_random_edges(g, n_changes) } :
                             pg \in (IF ds.permute THEN permute_graph_nodes(g) ELSE {g}) } :
            b \in get_graph(ds) }

\* _get_triplet(): its possible outcomes; a returned value holds the base
\* graph and (permuted_g, pos_g, neg_g).
get_triplet(ds) ==
    UNION { IF b.err # "none" THEN {b}
            ELSE LET g == b.value
                 IN  UNION { { IF pos.err # "none" THEN pos
                               ELSE IF neg.err # "none" THEN neg
                               ELSE Returned([base |-> g,
                                              graphs |-> <<pg, pos.value, neg.value>>]) :
                                 pos \in substitute_random_edges(g, ds.k_pos),
                                 neg \in substitute_random_edges(g, ds.k_neg) } :
                             pg \in (IF ds.permute THEN permute_graph_nodes(g) ELSE {g}) } :
            b \in get_graph(ds) }

\* tf.nest.flatten of a list of tuples of graphs.
RECURSIVE Flatten(_)
Flatten(tuples) == IF tuples = <<>> THEN <<>> ELSE Head(tuples) \o Flatten(Tail(tuples))

\* edges[:, 0] + n_total_nodes and edges[:, 1] + n_total_nodes left as they are.
ShiftedEdges_NoShift(edges, n_total_nodes) ==
    [from_idx |-> [k \in 1..Len(edges) |-> edges[k][1]],
     to_idx |-> [k \in 1..Len(edges) |-> edges[k][2]]]

\* edges[:, 0] + n_total_nodes and edges[:, 1] + n_total_nodes.
ShiftedEdges(edges, n_total_nodes) ==
    [from_idx |-> [k \in 1..Len(edges) |-> edges[k][1] + n_total_nodes],
     to_idx |-> [k \in 1..Len(edges) |-> edges[k][2] + n_total_nodes]]

\* np.ones(n_nodes) * i with i counted from one.
GraphIdxOf_FromOne(n_nodes, i) == [v \in 1..n_nodes |-> i + 1]

\* np.ones(n_nodes, dtype=np.int32) * i.
GraphIdxOf(n_nodes, i) == [v \in 1..n_nodes |-> i]

\* self.embedder.get_embedding(node_label).
get_embedding(node_label) == <<"embedding", node_label>>

\* The loop `for i, g in enumerate(graphs)` of _pack_batch from the graph at
\* position i (counted from 0) on.  np.array(g.edges()) of a graph without
\* edges has one dimension and edges[:, 0] raises IndexError.
RECURSIVE PackLoop(_, _, _, _)
PackLoop(ds, graphs, i, acc) ==
    IF i >= Len(graphs) THEN Returned(acc)
    ELSE LET g == graphs[i + 1]
             edges == EdgeList(g.edges)
             shifted == ShiftedEdges(edges, acc.n_total_nodes)
         IN  IF edges = <<>> THEN Raised("IndexError")
             ELSE PackLoop(ds, graphs, i + 1,
                    [from_idx |-> acc.from_idx \o shifted.from_idx,
                     to_idx |-> acc.to_idx \o shifted.to_idx,
                     graph_idx |-> acc.graph_idx \o GraphIdxOf(g.n_nodes, i),
                     node_features |->
                         IF ds.cls = "KnowledgeGraphEditDistanceDataset"
                         THEN acc.node_features
                              \o [v \in 1..g.n_nodes |-> get_embedding(g.labels[v - 1])]
                         ELSE acc.node_features,
                     n_total_nodes |-> acc.n_total_nodes + g.n_nodes,
                     n_total_edges |-> acc.n_total_edges + Cardinality(g.edges)])

\* _pack_batch(graphs) of the dataset ds: the GraphData it returns or the
\* exception it raises.  np.concatenate of an empty list raises ValueError.
pack_batch(ds, batch_graphs) ==
    LET graphs == Flatten(batch_graphs)
        r == PackLoop(ds, graphs, 0,
                      [from_idx |-> <<>>, to_idx |-> <<>>, graph_idx |-> <<>>,
                       node_features |-> <<>>, n_total_nodes |-> 0, n_total_edges |-> 0])
    IN  IF r.err # "none" THEN r
        ELSE IF graphs = <<>> THEN Raised("ValueError")
        ELSE Returned(
               [from_idx |-> r.value.from_idx,
                to_idx |-> r.value.to_idx,
                node_features |->
                    IF ds.cls = "KnowledgeGraphEditDistanceDataset"
                    THEN r.value.node_features
                    ELSE [v \in 1..r.value.n_total_nodes |-> <<1, 1>>],
                edge_features |-> [k \in 1..r.value.n_total_edges |-> <<1, 1>>],
                graph_idx |-> r.value.graph_idx,
                n_graphs |-> Len(graphs)])

\* The tuple appended for a triplet with the anchor left out the second time.
TripletTuple_NoDuplicate(t) == <<t[1], t[2], t[3]>>

\* batch_graphs.append((g1, g2, g1, g3)).
TripletTuple(t) == <<t[1], t[2], t[1], t[3]>>

\* The label with the sign exchanged.
LabelOf_Inverted(positive) == IF positive THEN -1 ELSE 1

\* batch_labels.append(1 if positive else -1).
LabelOf(positive) == IF positive THEN 1 ELSE -1

(***************************************************************************)
(* SpecData: the generators triplets(batch_size) and pairs(batch_size) of  *)
(* GraphEditDistanceDataset and KnowledgeGraphEditDistanceDataset.         *)
(*                                                                         *)
(* a_in is the dataset object and the call; a_out is the state of the      *)
(* generator: the lists it has filled so far (gen keeps, for every tuple,  *)
(* the base graph and the polarity it was generated from), and the batch   *)
(* it yielded or the exception that ended it.                              *)
(***************************************************************************)
NodesRange == <<1, 3>>
ChangeCounts == {<<0, 0>>, <<0, 1>>, <<1, 0>>, <<1, 1>>}

Datasets ==
    { [cls |-> c, n_min |-> NodesRange[1], n_max |-> NodesRange[2],
       k_pos |-> k[1], k_neg |-> k[2], permute |-> p] :
        c \in {"GraphEditDistanceDataset", "KnowledgeGraphEditDistanceDataset"},
        k \in ChangeCounts, p \in BOOLEAN }

FreshLoop ==
    [status |-> "loop", batch_graphs |-> <<>>, batch_labels |-> <<>>,
     positive |-> TRUE, gen |-> <<>>]

InitData ==
    /\ config = CHOOSE c \in ConfigSpace : TRUE
    /\ pc = "dataset"
    /\ net = NewNet(config)
    /\ last = Call("none", "none", <<>>, <<>>)
    /\ was_reset = FALSE
    /\ \E ds \in Datasets, m \in {"triplets", "pairs"}, b \in 0..MaxBatch :
         a_in = [ds |-> ds, mode |-> m, batch_size |-> b]
    /\ a_out = FreshLoop

\* One iteration of `for _ in range(batch_size)` in triplets.
GetTriplet ==
    /\ a_in.mode = "triplets" /\ a_out.status = "loop"
    /\ Len(a_out.batch_graphs) < a_in.batch_size
    /\ \E t \in get_triplet(a_in.ds) :
         a_out' = IF t.err # "none" THEN [a_out EXCEPT !.status = t.err]
                  ELSE [a_out EXCEPT
                          !.batch_graphs = Append(@, TripletTuple(t.value.graphs)),
                          !.gen = Append(@, [base |-> t.value.base, positive |-> TRUE])]
    /\ UNCHANGED <<config, pc, net, last, was_reset, a_in>>

\* One iteration of `for _ in range(batch_size)` in pairs.
GetPair ==
    /\ a_in.mode = "pairs" /\ a_out.status = "loop"
    /\ Len(a_out.batch_graphs) < a_in.batch_size
    /\ \E t \in get_pair(a_in.ds, a_out.positive) :
         a_out' = IF t.err # "none" THEN [a_out EXCEPT !.status = t.err]
                  ELSE [a_out EXCEPT
                          !.batch_graphs = Append(@, t.value.graphs),
                          !.batch_labels = Append(@, LabelOf(a_out.positive)),
                          !.positive = ~a_out.positive,
                          !.gen = Append(@, [base |-> t.value.base,
                                             positive |-> a_out.positive])]
    /\ UNCHANGED <<config, pc, net, last, was_reset, a_in>>

\* yield self._pack_batch(batch_graphs) / yield packed_graphs, labels.
YieldBatch ==
    /\ a_out.status = "loop"
    /\ Len(a_out.batch_graphs) = a_in.batch_size
    /\ LET r == pack_batch(a_in.ds, a_out.batch_graphs)
       IN  a_out' = IF r.err # "none" THEN [a_out EXCEPT !.status = r.err]
                    ELSE [status |-> "yielded", batch_graphs |-> a_out.batch_graphs,
                          batch_labels |-> a_out.batch_labels,
                          positive |-> a_out.positive, gen |-> a_out.gen,
                          packed |-> r.value]
    /\ UNCHANGED <<config, pc, net, last, was_reset, a_in>>

\* The generator is resumed: the next iteration of `while True`.
NextBatch ==
    /\ a_out.status = "yielded"
    /\ a_out' = FreshLoop
    /\ UNCHANGED <<config, pc, net, last, was_reset, a_in>>

NextData == GetTriplet \/ GetPair \/ YieldBatch \/ NextBatch

SpecData == InitData /\ [][NextData]_vars

(***************************************************************************)
(* Properties of SpecData.                                                 *)
(***************************************************************************)
Yielded == a_out.status = "yielded"

\* The graphs handed to _pack_batch, flattened; graph j, counted from 0, is
\* PackedInput[j + 1].
PackedInput == Flatten(a_out.batch_graphs)

\* The total node count of the graphs before graph j of the list graphs.
RECURSIVE NodesBefore(_, _)
NodesBefore(graphs, j) ==
    IF j = 0 THEN 0 ELSE graphs[j].n_nodes + NodesBefore(graphs, j - 1)

\* The node rows of the batch tagged with graph j, as node indices, and the
\* edge rows that start in one of them.
NodesOf(j) ==
    { v \in 0..(Len(a_out.packed.graph_idx) - 1) : a_out.packed.graph_idx[v + 1] = j }

EdgeRowsOf(j) ==
    { k \in 1..Len(a_out.packed.from_idx) :
        a_out.packed.graph_idx[a_out.packed.from_idx[k] + 1] = j }

\* Graph j read back from the batch: its node count and its edges, renumbered
\* from the first node tagged j.
PackedGraph(j) ==
    LET nodes == NodesOf(j)
        first == CHOOSE v \in nodes : \A w \in nodes : v <= w
    IN  [n_nodes |-> Cardinality(nodes),
         edges |-> { EdgeOf(a_out.packed.from_idx[k] - first, a_out.packed.to_idx[k] - first) :
                       k \in EdgeRowsOf(j) }]

Structure(g) == [n_nodes |-> g.n_nodes, edges |-> g.edges]

\* g is the graph h with its nodes renumbered (as it is when permute is unset).
Renumbered(g, h) ==
    IF a_in.ds.permute
    THEN \E pg \in permute_graph_nodes(h) : Structure(pg) = Structure(g)
    ELSE Structure(g) = Structure(h)

\* g is the graph h with exactly n edges replaced by n edges h did not have.
Substituted(g, h, n) ==
    /\ g.n_nodes = h.n_nodes
    /\ Cardinality(h.edges \ g.edges) = n
    /\ Cardinality(g.edges \ h.edges) = n

\* C15: in every yielded batch the edge rows of graph j are the edges of
\* that graph with both endpoints raised by the node count of the graphs
\* before it, one row per edge; both endpoints of every edge row carry the
\* same graph_idx; from_idx, to_idx and edge_features have the same length.
C15_EdgesShiftedByNodeCount ==
    Yielded =>
        LET graphs == PackedInput
        IN  /\ \A j \in 0..(Len(graphs) - 1) :
                 LET before == NodesBefore(graphs, j)
                     rows == EdgeRowsOf(j)
                 IN  /\ { <<a_out.packed.from_idx[k], a_out.packed.to_idx[k]>> : k \in rows }
                            = { <<e[1] + before, e[2] + before>> : e \in graphs[j + 1].edges }
                     /\ Cardinality(rows) = Cardinality(graphs[j + 1].edges)
            /\ \A k \in 1..Len(a_out.packed.from_idx) :
                 a_out.packed.graph_idx[a_out.packed.from_idx[k] + 1]
                     = a_out.packed.graph_idx[a_out.packed.to_idx[k] + 1]
            /\ Len(a_out.packed.from_idx) = Len(a_out.packed.to_idx)
            /\ Len(a_out.packed.to_idx) = Len(a_out.packed.edge_features)

\* C15 witness: a batch yielded by KnowledgeGraphEditDistanceDataset whose
\* second graph follows a graph of three nodes.
C15_Witness ==
    /\ Yielded
    /\ a_in.ds.cls = "KnowledgeGraphEditDistanceDataset"
    /\ Len(PackedInput) >= 2
    /\ PackedInput[1].n_nodes = 3
    /\ PackedInput[2].edges # {}

\* C16: in every yielded batch graph_idx has one entry per node-feature row,
\* never decreases, and takes exactly the values 0..n_graphs-1; graph j fills
\* the node indices that follow those of the graphs before it; every edge
\* endpoint is a node index of the batch; n_graphs is the number of graphs
\* after flattening.
C16_GraphIdxCoversAllGraphs ==
    Yielded =>
        LET graphs == PackedInput
            n_rows == Len(a_out.packed.node_features)
        IN  /\ Len(a_out.packed.graph_idx) = n_rows
            /\ \A v \in 1..(n_rows - 1) :
                 a_out.packed.graph_idx[v] <= a_out.packed.graph_idx[v + 1]
            /\ { a_out.packed.graph_idx[v] : v \in 1..Len(a_out.packed.graph_idx) }
                   = 0..(a_out.packed.n_graphs - 1)
            /\ a_out.packed.n_graphs = Len(graphs)
            /\ \A j \in 0..(Len(graphs) - 1) :
                 NodesOf(j) = NodesBefore(graphs, j)
                                ..(NodesBefore(graphs, j) + graphs[j + 1].n_nodes - 1)
            /\ \A k \in 1..Len(a_out.packed.from_idx) :
                 /\ a_out.packed.from_idx[k] \in 0..(n_rows - 1)
                 /\ a_out.packed.to_idx[k] \in 0..(n_rows - 1)

\* C16 witness: a yielded batch of at least four graphs of different sizes.
C16_Witness ==
    /\ Yielded
    /\ a_out.packed.n_graphs >= 4
    /\ \E i, j \in 1..Len(PackedInput) : PackedInput[i].n_nodes # PackedInput[j].n_nodes

\* C17: every batch yielded by triplets(batch_size) holds 4 * batch_size
\* graphs; for every i < batch_size, graphs 4i and 4i+2 are the same
\* renumbering of the i-th base graph, graph 4i+1 is that base graph with
\* k_pos edges substituted and graph 4i+3 is it with k_neg edges substituted.
C17_TripletsPackedAsXYXZ ==
    (Yielded /\ a_in.mode = "triplets") =>
        /\ a_out.packed.n_graphs = 4 * a_in.batch_size
        /\ \A i \in 0..(a_in.batch_size - 1) :
             LET base == a_out.gen[i + 1].base
             IN  /\ PackedGraph(4 * i) = PackedGraph(4 * i + 2)
                 /\ Renumbered(PackedGraph(4 * i), base)
                 /\ Substituted(PackedGraph(4 * i + 1), base, a_in.ds.k_pos)
                 /\ Substituted(PackedGraph(4 * i + 3), base, a_in.ds.k_neg)

\* C17 witness: a yielded batch of two triplets whose positive and negative
\* graphs differ.
C17_Witness ==
    /\ Yielded /\ a_in.mode = "triplets" /\ a_in.batch_size = 2
    /\ a_in.ds.k_pos # a_in.ds.k_neg
    /\ PackedGraph(5) # PackedGraph(7)

\* C18: every item yielded by pairs(batch_size) holds 2 * batch_size graphs
\* and batch_size labels, each +1 or -1; graphs 2i and 2i+1 are the i-th
\* pair: a renumbering of the i-th base graph and that base graph with edges
\* substituted; label i is +1 exactly when the pair was generated as a
\* positive one, with k_pos substitutions, and -1 exactly when it was
\* generated as a negative one, with k_neg substitutions.
C18_PairsAndLabels ==
    (Yielded /\ a_in.mode = "pairs") =>
        /\ a_out.packed.n_graphs = 2 * a_in.batch_size
        /\ Len(a_out.batch_labels) = a_in.batch_size
        /\ \A i \in 0..(a_in.batch_size - 1) :
             LET g == a_out.gen[i + 1]
             IN  /\ a_out.batch_labels[i + 1] \in {1, -1}
                 /\ a_out.batch_labels[i + 1] = 1 <=> g.positive
                 /\ Renumbered(PackedGraph(2 * i), g.base)
                 /\ Substituted(PackedGraph(2 * i + 1), g.base,
                                IF a_out.batch_labels[i + 1] = 1 THEN a_in.ds.k_pos
                                                                  ELSE a_in.ds.k_neg)

\* C18 witness: a yielded batch of two pairs, the first positive and the
\* second negative, with different numbers of substitutions.
C18_Witness ==
    /\ Yielded /\ a_in.mode = "pairs" /\ a_in.batch_size = 2
    /\ a_in.ds.k_pos # a_in.ds.k_neg
    /\ a_out.batch_labels = <<1, -1>>

(***************************************************************************)
(* The graph aggregator on one-dimensional node states.                    *)
(*                                                                         *)
(* The sigmoid of the gates is kept in steps of 1 / GateUnit, and every    *)
(* transformed node state in units of 1 / GateUnit.  A row of graph_states *)
(* is [num, den, root]: the value num / (den * sqrt(root)), in the same    *)
(* units.                                                                  *)
(***************************************************************************)
MaxGraphs == 2      \* n_graphs of an aggregated batch ranges over 1..MaxGraphs

GateUnit == 4
ResetThreshold == -100000
LowestFloat == -2000000000

\* The parameters of node-state-g-mlp: one output column for the plain
\* aggregator, a gate column and a value column for the gated one.
AggregatorParams ==
    [plain |-> [w |-> <<2>>, b |-> 1],
     gate  |-> [w |-> <<1>>, b |-> 0],
     value |-> [w |-> <<1>>, b |-> -1]]

\* tf.nn.sigmoid, in steps of 1 / GateUnit.
sigmoid(x) == IF x < 0 THEN 1 ELSE IF x = 0 THEN 2 ELSE 3

Row(num, den, root) == [num |-> num, den |-> den, root |-> root]

\* The rows of data in segment v.
SegmentOf(segment_ids, v) == { k \in 1..Len(segment_ids) : segment_ids[k] = v }

\* tf.unsorted_segment_mean: the sum of a segment over its number of rows,
\* 0 for a segment without rows.
unsorted_segment_mean(data, segment_ids, num_segments) ==
    LET sums == unsorted_segment_sum(data, segment_ids, num_segments)
    IN  [v \in 0..(num_segments - 1) |->
            IF SegmentOf(segment_ids, v) = {} THEN Row(0, 1, 1)
            ELSE Row(sums[v], Cardinality(SegmentOf(segment_ids, v)), 1)]

\* tf.unsorted_segment_sqrt_n: the sum of a segment over the square root of
\* its number of rows, 0 for a segment without rows.
unsorted_segment_sqrt_n(data, segment_ids, num_segments) ==
    LET sums == unsorted_segment_sum(data, segment_ids, num_segments)
    IN  [v \in 0..(num_segments - 1) |->
            IF SegmentOf(segment_ids, v) = {} THEN Row(0, 1, 1)
            ELSE Row(sums[v], 1, Cardinality(SegmentOf(segment_ids, v)))]

\* tf.unsorted_segment_max: the largest row of a segment, the lowest float
\* for a segment without rows.
unsorted_segment_max(data, segment_ids, num_segments) ==
    [v \in 0..(num_segments - 1) |->
        LET rows == SegmentOf(segment_ids, v)
        IN  IF rows = {} THEN Row(LowestFloat, 1, 1)
            ELSE Row(data[CHOOSE k \in rows : \A j \in rows : data[k] >= data[j]], 1, 1)]

\* A reduction that stores rows instead of combining them: the last row of
\* a segment stays.
AggregationOp_LastRowWins(aggregation_type, data, segment_ids, num_segments) ==
    [v \in 0..(num_segments - 1) |->
        LET rows == SegmentOf(segment_ids, v)
        IN  IF rows = {} THEN Row(0, 1, 1)
            ELSE Row(data[CHOOSE k \in rows : \A j \in rows : k >= j], 1, 1)]

\* AGGREGATION_TYPE[aggregation_type](data, segment_ids, num_segments).
AggregationOp(aggregation_type, data, segment_ids, num_segments) ==
    CASE aggregation_type = "sum" ->
           [v \in 0..(num_segments - 1) |->
               Row(unsorted_segment_sum(data, segment_ids, num_segments)[v], 1, 1)]
      [] aggregation_type = "mean" -> unsorted_segment_mean(data, segment_ids, num_segments)
      [] aggregation_type = "sqrt_n" -> unsorted_segment_sqrt_n(data, segment_ids, num_segments)
      [] aggregation_type = "max" -> unsorted_segment_max(data, segment_ids, num_segments)

\* graph-transform-mlp applied to a row of graph_states.
GraphTransform(row) == [mlp |-> "graph-transform-mlp", input |-> row]

\* An aggregator that leaves out the reset of the 'max' rows.
GraphAggregator_build_NoReset(agg, node_states, graph_idx, n_graphs) ==
    LET node_states_g ==
            [k \in 1..Len(node_states) |->
                IF agg.gated
                THEN MLP(AggregatorParams.value, <<node_states[k]>>)
                         * sigmoid(MLP(AggregatorParams.gate, <<node_states[k]>>))
                ELSE GateUnit * MLP(AggregatorParams.plain, <<node_states[k]>>)]
        graph_states == AggregationOp(agg.aggregation_type, node_states_g, graph_idx, n_graphs)
    IN  [node_states_g |-> node_states_g,
         graph_states |-> graph_states,
         out |-> IF agg.graph_transform
                    THEN [v \in DOMAIN graph_states |-> GraphTransform(graph_states[v])]
                    ELSE graph_states]

\* GraphAggregator._build(node_states, graph_idx, n_graphs) of an aggregator
\* with the settings agg: gated, aggregation_type and whether
\* graph_transform_sizes is a non-empty list.
GraphAggregator_build(agg, node_states, graph_idx, n_graphs) ==
    LET node_states_g ==
            [k \in 1..Len(node_states) |->
                IF agg.gated
                THEN MLP(AggregatorParams.value, <<node_states[k]>>)
                         * sigmoid(MLP(AggregatorParams.gate, <<node_states[k]>>))
                ELSE GateUnit * MLP(AggregatorParams.plain, <<node_states[k]>>)]
        reduced == AggregationOp(agg.aggregation_type, node_states_g, graph_idx, n_graphs)
        graph_states ==
            IF agg.aggregation_type = "max"
            THEN [v \in DOMAIN reduced |->
                     [reduced[v] EXCEPT !.num =
                          @ * (IF @ > ResetThreshold * GateUnit THEN 1 ELSE 0)]]
            ELSE reduced
    IN  [node_states_g |-> node_states_g,
         graph_states |-> graph_states,
         out |-> IF agg.graph_transform
                    THEN [v \in DOMAIN graph_states |-> GraphTransform(graph_states[v])]
                    ELSE graph_states]

(***************************************************************************)
(* SpecAgg: GraphAggregator._build applied to a bounded batch of node      *)
(* states.                                                                 *)
(***************************************************************************)
\* Node states handed to the aggregator.
AggVals == {-200000, -1, 2}

InitAgg ==
    /\ config = CHOOSE c \in ConfigSpace : TRUE
    /\ pc = "aggregator"
    /\ net = NewNet(config)
    /\ last = Call("none", "none", <<>>, <<>>)
    /\ was_reset = FALSE
    /\ \E n \in 0..MaxRows, g \in 1..MaxGraphs :
         \E h \in [1..n -> AggVals], idx \in [1..n -> 0..(g - 1)],
            t \in AGGREGATION_TYPE, gated \in BOOLEAN, tr \in BOOLEAN :
           a_in = [node_states |-> h, graph_idx |-> idx, n_graphs |-> g,
                   agg |-> [gated |-> gated, aggregation_type |-> t,
                            graph_transform |-> tr]]
    /\ a_out = [done |-> FALSE]

\* One call of the aggregator on the batch.
Aggregate ==
    /\ ~a_out.done
    /\ LET r == GraphAggregator_build(a_in.agg, a_in.node_states, a_in.graph_idx,
                                      a_in.n_graphs)
       IN  a_out' = [done |-> TRUE, node_states_g |-> r.node_states_g,
                     graph_states |-> r.graph_states, out |-> r.out]
    /\ UNCHANGED <<config, pc, net, last, was_reset, a_in>>

NextAgg == Aggregate

SpecAgg == InitAgg /\ [][NextAgg]_vars

(***************************************************************************)
(* Properties of SpecAgg.                                                  *)
(***************************************************************************)
\* The node rows of graph g.
RowsOfGraph(g) == { k \in 1..Len(a_in.graph_idx) : a_in.graph_idx[k] = g }

\* The reduction of the transformed states of the node rows S: their sum,
\* mean, sum over the square root of their number, or maximum; zero when
\* there are none.
ReductionOver(S) ==
    LET total == SumOver(S, a_out.node_states_g)
    IN  IF S = {} THEN Row(0, 1, 1)
        ELSE CASE a_in.agg.aggregation_type = "sum" -> Row(total, 1, 1)
               [] a_in.agg.aggregation_type = "mean" -> Row(total, Cardinality(S), 1)
               [] a_in.agg.aggregation_type = "sqrt_n" -> Row(total, 1, Cardinality(S))
               [] a_in.agg.aggregation_type = "max" ->
                    Row(CHOOSE m \in { a_out.node_states_g[k] : k \in S } :
                            \A k \in S : m >= a_out.node_states_g[k], 1, 1)

\* C19: the aggregator returns n_graphs rows, for the graph indices
\* 0..n_graphs-1, and row g is the reduction over exactly the node rows with
\* graph_idx g, wherever they stand in the input.
C19_RowIsReductionOfItsGraph ==
    a_out.done =>
        /\ DOMAIN a_out.out = 0..(a_in.n_graphs - 1)
        /\ \A g \in 0..(a_in.n_graphs - 1) :
             /\ a_out.graph_states[g] = ReductionOver(RowsOfGraph(g))
             /\ a_out.out[g] = IF a_in.agg.graph_transform
                                  THEN GraphTransform(a_out.graph_states[g])
                                  ELSE a_out.graph_states[g]

\* C21: under 'max', every graph index below n_graphs without a node row
\* gets a zero row of graph_states (the value before the graph transform),
\* never the lowest float of the reduction.
C21_MaxEmptyGraphIsZero ==
    (a_out.done /\ a_in.agg.aggregation_type = "max") =>
        \A g \in 0..(a_in.n_graphs - 1) :
            RowsOfGraph(g) = {} =>
                /\ a_out.graph_states[g].num = 0
                /\ a_out.graph_states[g].num # LowestFloat

\* C21 witness: a 'max' aggregation of a batch in which graph 1 has no node
\* and graph 0 has one.
C21_Witness ==
    /\ a_out.done /\ a_in.agg.aggregation_type = "max"
    /\ a_in.n_graphs = 2
    /\ RowsOfGraph(1) = {} /\ RowsOfGraph(0) # {}
    /\ a_out.graph_states[1].num = 0

\* C26: under 'max', the row of graph_states of every graph with at least
\* one node is the maximum of the transformed states of its nodes, whatever
\* their values: the reset of the empty graphs changes no row of a graph
\* that has nodes.
C26_MaxOfNonEmptyGraphIsKept ==
    (a_out.done /\ a_in.agg.aggregation_type = "max") =>
        \A g \in 0..(a_in.n_graphs - 1) :
            RowsOfGraph(g) # {} =>
                /\ \E k \in RowsOfGraph(g) : a_out.graph_states[g].num = a_out.node_states_g[k]
                /\ \A k \in RowsOfGraph(g) : a_out.graph_states[g].num >= a_out.node_states_g[k]

(***************************************************************************)
(* SpecPass: one forward pass of GraphEmbeddingNet over a single graph,    *)
(* with the layer settings of get_default_config.  The graph has no        *)
(* self-loops, as the graphs of the datasets.                              *)
(***************************************************************************)
DefaultNodeUpdateType == "gru"

\* The parameters of node-feature-mlp of the encoder.
EncoderParams == [w |-> <<1>>, b |-> 1]

\* The loop over the propagation layers from layer i on.
RECURSIVE PropagateFrom(_, _, _)
PropagateFrom(g, node_states, i) ==
    IF i > Len(PropParams) THEN node_states
    ELSE PropagateFrom(g, GraphPropLayer_apply(PropParams[i], g, node_states).node_states,
                       i + 1)

\* GraphEmbeddingNet._build on the graph g, whose nodes all belong to graph
\* 0 of a batch of one graph: encoder, propagation layers, aggregator.
GraphEmbeddingNet_forward(g, agg) ==
    LET encoded == [v \in DOMAIN g.node_states |-> MLP(EncoderParams, <<g.node_states[v]>>)]
        final == PropagateFrom(g, encoded, 1)
    IN  GraphAggregator_build(agg, [k \in 1..g.n_nodes |-> final[k - 1]],
                              [k \in 1..g.n_nodes |-> 0], 1).out

InitPass ==
    /\ config = CHOOSE c \in ConfigSpace : TRUE
    /\ pc = "forward"
    /\ net = NewNet(config)
    /\ last = Call("none", "none", <<>>, <<>>)
    /\ was_reset = FALSE
    /\ \E n \in 1..MaxNodes, k \in 0..MaxEdges :
         \E h \in [0..(n - 1) -> NodeVals],
            e \in [1..k -> { d \in (0..(n - 1)) \X (0..(n - 1)) : d[1] # d[2] }],
            ty \in AGGREGATION_TYPE, gated \in BOOLEAN :
           a_in = [graph |-> PropInput(n, k, h, [j \in 1..k |-> e[j][1]],
                                       [j \in 1..k |-> e[j][2]],
                                       <<UseReverseDirection, ReverseDirParamDifferent>>,
                                       DefaultNodeUpdateType),
                   agg |-> [gated |-> gated, aggregation_type |-> ty,
                            graph_transform |-> TRUE]]
    /\ a_out = [done |-> FALSE]

\* One forward pass over the graph.
ForwardPass ==
    /\ ~a_out.done
    /\ a_out' = [done |-> TRUE,
                 graph_states |-> GraphEmbeddingNet_forward(a_in.graph, a_in.agg)]
    /\ UNCHANGED <<config, pc, net, last, was_reset, a_in>>

NextPass == ForwardPass

SpecPass == InitPass /\ [][NextPass]_vars

(***************************************************************************)
(* Properties of SpecPass.                                                 *)
(***************************************************************************)
\* The relabelings of the nodes of the graph.
NodeRelabelings ==
    LET nodes == 0..(a_in.graph.n_nodes - 1)
    IN  { pi \in [nodes -> nodes] : \A x, y \in nodes : pi[x] = pi[y] => x = y }

\* The graph with node v renamed pi[v]: node features and edge endpoints
\* follow.
Relabeled(pi) ==
    LET g == a_in.graph
    IN  [g EXCEPT
           !.node_states = [w \in DOMAIN g.node_states |->
                               g.node_states[CHOOSE v \in DOMAIN g.node_states : pi[v] = w]],
           !.from_idx = [k \in 1..Len(g.from_idx) |-> pi[g.from_idx[k]]],
           !.to_idx = [k \in 1..Len(g.to_idx) |-> pi[g.to_idx[k]]]]

\* C20: the graph vector a forward pass produces for a graph is the one it
\* produces for every relabeling of the graph's nodes, for each reduction and
\* for the gated and the plain aggregator.
C20_GraphVectorIgnoresNodeNumbering ==
    a_out.done =>
        \A pi \in NodeRelabelings :
            GraphEmbeddingNet_forward(Relabeled(pi), a_in.agg) = a_out.graph_states

\* C20 witness: a forward pass with the gated 'max' aggregator over a graph
\* with an edge between two nodes of different features.
C20_Witness ==
    /\ a_out.done
    /\ a_in.agg.gated /\ a_in.agg.aggregation_type = "max"
    /\ \E k \in 1..Len(a_in.graph.from_idx) :
         a_in.graph.node_states[a_in.graph.from_idx[k]]
             # a_in.graph.node_states[a_in.graph.to_idx[k]]

(***************************************************************************)
(* SpecSizes: GraphAggregator objects built from one configuration list.   *)
(*                                                                         *)
(* a_in holds the configuration as written by the caller; a_out holds the  *)
(* list object node_hidden_sizes as it is now (every aggregator keeps a    *)
(* reference to this one object in _node_hidden_sizes) and the aggregators *)
(* constructed so far.                                                     *)
(***************************************************************************)
MaxAggregators == 2     \* aggregators constructed from the configuration
MaxPasses == 2          \* forward passes of one aggregator

\* Layer sizes of a configuration list.
SizeVals == {1, 2, 3}

\* GraphAggregator.__init__(node_hidden_sizes, gated=gated): the object keeps
\* the list itself and reads its last element.
GraphAggregator_new(node_hidden_sizes, gated) ==
    [graph_state_dim |-> node_hidden_sizes[Len(node_hidden_sizes)],
     gated |-> gated, passes |-> 0, out_dim |-> 0]

\* The list after the head of GraphAggregator._build of the aggregator a:
\* a gated aggregator assigns to the last element of the list it shares.
SizesAfterBuild(a, node_hidden_sizes) ==
    IF a.gated
    THEN [node_hidden_sizes EXCEPT ![Len(node_hidden_sizes)] = a.graph_state_dim * 2]
    ELSE node_hidden_sizes

\* The width of the rows of graph_states that _build of the aggregator a
\* returns (without graph transform) when the list holds node_hidden_sizes
\* after the head of _build: the columns of node-state-g-mlp, less the gate
\* columns of a gated aggregator.
OutputWidth(a, node_hidden_sizes) ==
    IF a.gated
    THEN node_hidden_sizes[Len(node_hidden_sizes)] - a.graph_state_dim
    ELSE node_hidden_sizes[Len(node_hidden_sizes)]

InitSizes ==
    /\ config = CHOOSE c \in ConfigSpace : TRUE
    /\ pc = "sizes"
    /\ net = NewNet(config)
    /\ last = Call("none", "none", <<>>, <<>>)
    /\ was_reset = FALSE
    /\ \E n \in 1..2, gated \in BOOLEAN :
         \E sizes \in [1..n -> SizeVals] :
           a_in = [node_hidden_sizes |-> sizes, gated |-> gated]
    /\ a_out = [node_hidden_sizes |-> a_in.node_hidden_sizes, aggregators |-> <<>>]

\* aggregator = GraphAggregator(**config['aggregator']), as in build_model.
ConstructAggregator ==
    /\ Len(a_out.aggregators) < MaxAggregators
    /\ a_out' = [a_out EXCEPT !.aggregators =
                    Append(@, GraphAggregator_new(a_out.node_hidden_sizes, a_in.gated))]
    /\ UNCHANGED <<config, pc, net, last, was_reset, a_in>>

\* One forward pass of aggregator i.
AggregatorPass ==
    \E i \in 1..Len(a_out.aggregators) :
        /\ a_out.aggregators[i].passes < MaxPasses
        /\ LET a == a_out.aggregators[i]
               sizes == SizesAfterBuild(a, a_out.node_hidden_sizes)
           IN  a_out' = [node_hidden_sizes |-> sizes,
                         aggregators |-> [a_out.aggregators EXCEPT ![i] =
                             [a EXCEPT !.passes = @ + 1,
                                       !.out_dim = OutputWidth(a, sizes)]]]
        /\ UNCHANGED <<config, pc, net, last, was_reset, a_in>>

NextSizes == ConstructAggregator \/ AggregatorPass

SpecSizes == InitSizes /\ [][NextSizes]_vars

(***************************************************************************)
(* Properties of SpecSizes.                                                *)
(***************************************************************************)
\* C25: the aggregators never change the caller's node_hidden_sizes list:
\* after any constructions and forward passes it holds the elements the
\* caller wrote, and every aggregator built from it has the configured
\* last element as its graph state dimension and as the width of its output.
C25_CallerListUnchanged ==
    /\ a_out.node_hidden_sizes = a_in.node_hidden_sizes
    /\ \A i \in 1..Len(a_out.aggregators) :
         /\ a_out.aggregators[i].graph_state_dim
                = a_in.node_hidden_sizes[Len(a_in.node_hidden_sizes)]
         /\ a_out.aggregators[i].passes > 0 =>
                a_out.aggregators[i].out_dim
                    = a_in.node_hidden_sizes[Len(a_in.node_hidden_sizes)]

(***************************************************************************)
(* SpecEdit: permute_graph_nodes and substitute_random_edges called on one *)
(* graph, the loop of substitute_random_edges taken draw by draw.          *)
(*                                                                         *)
(* a_in holds the graph g and the argument n as the caller passes them.    *)
(* a_out holds the call made (op), where it stands (phase), the caller's   *)
(* graph object as it is now (g), the permutation drawn (perm), the local  *)
(* variables e_remove, e_add and e (the pair drawn last) of                *)
(* substitute_random_edges, and the graph returned (result).               *)
(***************************************************************************)
\* Node labels of the graphs.
LabelVals == {"a", "b"}

\* The node counts of the graphs.
EditNodes == 1..3

\* The pairs np.random.choice(n_nodes, 2, replace=False) can return.
Draws(n_nodes) == { e \in (0..(n_nodes - 1)) \X (0..(n_nodes - 1)) : e[1] # e[2] }

AllDraws == UNION { Draws(n_nodes) : n_nodes \in EditNodes }

NoCall(g) ==
    [op |-> "none", phase |-> "idle", g |-> g, perm |-> <<>>, e_remove |-> {},
     e_add |-> {}, e |-> <<>>, result |-> <<>>]

InitEdit ==
    /\ config = CHOOSE c \in ConfigSpace : TRUE
    /\ pc = "edit"
    /\ net = NewNet(config)
    /\ last = Call("none", "none", <<>>, <<>>)
    /\ was_reset = FALSE
    /\ \E n_nodes \in EditNodes :
         \E edges \in SUBSET NodePairs(n_nodes),
            labels \in {<<>>} \cup [0..(n_nodes - 1) -> LabelVals] :
           \E n \in 0..(Cardinality(edges) + 1) :
              a_in = [g |-> Graph(n_nodes, edges, labels), n |-> n]
    /\ a_out = NoCall(a_in.g)

\* permute_graph_nodes(g).
PermuteNodes ==
    /\ a_out.op = "none"
    /\ \E perm \in NodePermutations(a_in.g.n_nodes) :
         a_out' = [a_out EXCEPT !.op = "permute", !.phase = "done", !.perm = perm,
                                !.result = PermutedGraph(a_out.g, perm)]
    /\ UNCHANGED <<config, pc, net, last, was_reset, a_in>>

\* substitute_random_edges(g, n) up to the while loop: the deep copy and the
\* choice of e_remove, which raises ValueError when n exceeds the number of
\* edges.
SubstituteStart ==
    /\ a_out.op = "none"
    /\ IF a_in.n > Cardinality(a_out.g.edges)
       THEN a_out' = [a_out EXCEPT !.op = "substitute", !.phase = "ValueError"]
       ELSE \E e_remove \in { R \in SUBSET a_out.g.edges : Cardinality(R) = a_in.n } :
              a_out' = [a_out EXCEPT !.op = "substitute", !.phase = "loop",
                                     !.e_remove = e_remove]
    /\ UNCHANGED <<config, pc, net, last, was_reset, a_in>>

\* One iteration of `while len(e_add) < n` that draws the pair e: e is added
\* to e_add unless it, or its reverse, is an edge of g or is in e_add.
DrawPair(e) ==
    /\ a_out.op = "substitute" /\ a_out.phase = "loop"
    /\ Cardinality(a_out.e_add) < a_in.n
    /\ e \in Draws(a_in.g.n_nodes)
    /\ a_out' = [a_out EXCEPT
                    !.e = e,
                    !.e_add = IF /\ e \notin a_out.g.edges
                                 /\ <<e[2], e[1]>> \notin a_out.g.edges
                                 /\ e \notin @
                                 /\ <<e[2], e[1]>> \notin @
                              THEN @ \cup {e} ELSE @]
    /\ UNCHANGED <<config, pc, net, last, was_reset, a_in>>

\* The end of substitute_random_edges once the loop is left: the edges of
\* e_remove are removed from the copy, those of e_add added, and the copy
\* is returned.
SubstituteFinish ==
    /\ a_out.op = "substitute" /\ a_out.phase = "loop"
    /\ Cardinality(a_out.e_add) >= a_in.n
    /\ a_out' = [a_out EXCEPT
                    !.phase = "done",
                    !.result = Graph(a_out.g.n_nodes,
                                     (a_out.g.edges \ a_out.e_remove)
                                         \cup { EdgeOf(e[1], e[2]) : e \in a_out.e_add },
                                     a_out.g.labels)]
    /\ UNCHANGED <<config, pc, net, last, was_reset, a_in>>

NextEdit ==
    \/ PermuteNodes
    \/ SubstituteStart
    \/ \E e \in AllDraws : DrawPair(e)
    \/ SubstituteFinish

SpecEdit == InitEdit /\ [][NextEdit]_vars

\* SpecEdit where the end of the function is reached once the loop is left
\* and every pair is drawn again and again while the loop runs.
FairEdit ==
    /\ SpecEdit
    /\ WF_vars(SubstituteFinish)
    /\ \A e \in AllDraws : SF_vars(DrawPair(e))

(***************************************************************************)
(* Properties of SpecEdit and FairEdit.                                    *)
(***************************************************************************)
\* C28: permute_graph_nodes(g) returns g relabeled by the permutation it
\* drew: as many nodes and edges, (perm[x], perm[y]) is an edge of the
\* result exactly when (x, y) is an edge of g, node perm[x] carries the
\* label of node x of g, and g is left as it was.
C28_PermutedGraphIsRelabeledGraph ==
    (a_out.op = "permute" /\ a_out.phase = "done") =>
        LET g == a_in.g
            r == a_out.result
            nodes == 0..(g.n_nodes - 1)
        IN  /\ r.n_nodes = g.n_nodes
            /\ Cardinality(r.edges) = Cardinality(g.edges)
            /\ \A x, y \in nodes :
                 x # y => (EdgeOf(a_out.perm[x], a_out.perm[y]) \in r.edges
                              <=> EdgeOf(x, y) \in g.edges)
            /\ DOMAIN r.labels = DOMAIN g.labels
            /\ \A x \in DOMAIN g.labels : r.labels[a_out.perm[x]] = g.labels[x]
            /\ a_out.g = a_in.g

\* C29: substitute_random_edges(g, n) with n at most the number of edges of
\* g, once in its loop, comes to its end and returns a graph with as many
\* edges as g, n of the edges of g removed and n edges absent from g added,
\* g being left as it was.
C29_SubstituteTerminates ==
    (a_out.op = "substitute" /\ a_out.phase = "loop")
        ~> (/\ a_out.phase = "done"
            /\ Cardinality(a_out.result.edges) = Cardinality(a_in.g.edges)
            /\ Cardinality(a_in.g.edges \ a_out.result.edges) = a_in.n
            /\ Cardinality(a_out.result.edges \ a_in.g.edges) = a_in.n
            /\ a_out.g = a_in.g)

(***************************************************************************)
(* SpecRand: the context manager reset_random_state around a body that     *)
(* draws random numbers, followed by code that draws outside the context.  *)
(*                                                                         *)
(* The state of a generator is a number below RngPeriod; a draw moves it   *)
(* to the next one and seeding sets it to the seed modulo RngPeriod.       *)
(* a_in holds the two global generator states at entry and the seed;       *)
(* a_out holds the global states np and py as they are now, the locals     *)
(* np_rnd_state and rnd_state, the position of the caller (phase), whether *)
(* the body raised, and the draws made after the exit.                     *)
(***************************************************************************)
RngPeriod == 5      \* generator states are 0..RngPeriod-1
MaxDraws == 2       \* draws made after the context exited, per generator

\* Seeds passed to reset_random_state.
SeedVals == {8, 1234}

\* The state after one draw, and after n draws.
Advance(state) == (state + 1) % RngPeriod

AdvanceBy(state, n) == (state + n) % RngPeriod

\* np.random.seed(seed) and random.seed(seed): the state they set.
Seeded(seed) == seed % RngPeriod

\* reset_random_state up to its yield: both states are saved, then both
\* generators are seeded.
reset_random_state_enter(st, seed) ==
    [st EXCEPT !.np_rnd_state = st.np, !.rnd_state = st.py,
               !.np = Seeded(seed), !.py = Seeded(seed + 1),
               !.phase = "body"]

\* An exit that restores the states only when the body did not raise.
reset_random_state_exit_NoFinally(st) ==
    IF st.raised THEN [st EXCEPT !.phase = "exited"]
    ELSE [st EXCEPT !.py = st.rnd_state, !.np = st.np_rnd_state, !.phase = "exited"]

\* reset_random_state after its yield: the finally block restores both
\* states, whether or not the body raised.
reset_random_state_exit(st) ==
    [st EXCEPT !.py = st.rnd_state, !.np = st.np_rnd_state, !.phase = "exited"]

InitRand ==
    /\ config = CHOOSE c \in ConfigSpace : TRUE
    /\ pc = "random"
    /\ net = NewNet(config)
    /\ last = Call("none", "none", <<>>, <<>>)
    /\ was_reset = FALSE
    /\ \E np \in 0..(RngPeriod - 1), py \in 0..(RngPeriod - 1), seed \in SeedVals :
         a_in = [np |-> np, py |-> py, seed |-> seed]
    /\ a_out = [np |-> a_in.np, py |-> a_in.py, np_rnd_state |-> 0, rnd_state |-> 0,
                phase |-> "before", raised |-> FALSE, np_draws |-> 0, py_draws |-> 0]

\* with reset_random_state(self._seed):
EnterContext ==
    /\ a_out.phase = "before"
    /\ a_out' = reset_random_state_enter(a_out, a_in.seed)
    /\ UNCHANGED <<config, pc, net, last, was_reset, a_in>>

\* The body draws from numpy (np.random.*) or from random (random.choice).
BodyDraw ==
    /\ a_out.phase = "body" /\ ~a_out.raised
    /\ \/ a_out' = [a_out EXCEPT !.np = Advance(@)]
       \/ a_out' = [a_out EXCEPT !.py = Advance(@)]
    /\ UNCHANGED <<config, pc, net, last, was_reset, a_in>>

\* The body raises an exception.
BodyRaise ==
    /\ a_out.phase = "body" /\ ~a_out.raised
    /\ a_out' = [a_out EXCEPT !.raised = TRUE]
    /\ UNCHANGED <<config, pc, net, last, was_reset, a_in>>

\* The context exits, the body having ended or raised.
ExitContext ==
    /\ a_out.phase = "body"
    /\ a_out' = reset_random_state_exit(a_out)
    /\ UNCHANGED <<config, pc, net, last, was_reset, a_in>>

\* Code running after the context draws from numpy or from random.
DrawAfter ==
    /\ a_out.phase = "exited"
    /\ \/ /\ a_out.np_draws < MaxDraws
          /\ a_out' = [a_out EXCEPT !.np = Advance(@), !.np_draws = @ + 1]
       \/ /\ a_out.py_draws < MaxDraws
          /\ a_out' = [a_out EXCEPT !.py = Advance(@), !.py_draws = @ + 1]
    /\ UNCHANGED <<config, pc, net, last, was_reset, a_in>>

NextRand ==
    \/ EnterContext
    \/ BodyDraw
    \/ BodyRaise
    \/ ExitContext
    \/ DrawAfter

SpecRand == InitRand /\ [][NextRand]_vars

(***************************************************************************)
(* Properties of SpecRand.                                                 *)
(***************************************************************************)
\* C30: once the context has exited, whether its body ended or raised, the
\* numpy and the Python generator states are those at entry, so that the
\* draws made afterwards are the ones that would have followed the entry
\* states had the context never run.
C30_RandomStatesRestored ==
    a_out.phase = "exited" =>
        /\ a_out.np = AdvanceBy(a_in.np, a_out.np_draws)
        /\ a_out.py = AdvanceBy(a_in.py, a_out.py_draws)

\* C30 witness: the context exited after its body raised with both states
\* away from their entry values, and one draw from each generator followed.
C30_Witness ==
    /\ a_out.phase = "exited" /\ a_out.raised
    /\ Seeded(a_in.seed) # a_in.np /\ Seeded(a_in.seed + 1) # a_in.py
    /\ a_out.np_draws = 1 /\ a_out.py_draws = 1

(***************************************************************************)
(* SpecSplit: reshape_and_split_tensor applied to the graph vectors of a   *)
(* batch.  A tensor is a sequence of rows, a row a sequence of numbers.    *)
(***************************************************************************)
MaxEntries == 8     \* num_examples * feature_dim is at most MaxEntries

\* Entries of the graph vectors.
EntryVals == {0, 1}

\* The numbers of splits: 2 and 4 are those of build_model.
SplitCounts == 1..4

\* tf.reshape(tensor, [-1, width]) of a tensor whose number of entries is a
\* multiple of width: the entries in row-major order, cut into rows of
\* width entries.
tf_reshape(tensor, width) ==
    LET flat == Flatten(tensor)
    IN  [i \in 1..(Len(flat) \div width) |->
            [c \in 1..width |-> flat[(i - 1) * width + c]]]

\* tf.split(tensor, n_splits, axis=-1): n_splits tensors, each holding an
\* equal share of the columns, in column order.
tf_split(tensor, n_splits, width) ==
    [j \in 1..n_splits |->
        [i \in 1..Len(tensor) |->
            [c \in 1..(width \div n_splits) |->
                tensor[i][(j - 1) * (width \div n_splits) + c]]]]

\* A split of the rows into n_splits blocks of consecutive rows.
reshape_and_split_tensor_RowBlocks(tensor, n_splits) ==
    [j \in 1..n_splits |->
        [i \in 1..(Len(tensor) \div n_splits) |->
            tensor[(j - 1) * (Len(tensor) \div n_splits) + i]]]

\* reshape_and_split_tensor(tensor, n_splits) of a tensor with at least one
\* row; feature_dim is the number of its columns.
reshape_and_split_tensor(tensor, n_splits) ==
    LET feature_dim == Len(tensor[1])
    IN  tf_split(tf_reshape(tensor, feature_dim * n_splits), n_splits,
                 feature_dim * n_splits)

InitSplit ==
    /\ config = CHOOSE c \in ConfigSpace : TRUE
    /\ pc = "split"
    /\ net = NewNet(config)
    /\ last = Call("none", "none", <<>>, <<>>)
    /\ was_reset = FALSE
    /\ \E n_splits \in SplitCounts, m \in 1..MaxEntries, feature_dim \in 1..MaxEntries :
         /\ n_splits * m * feature_dim <= MaxEntries
         /\ \E tensor \in [1..(n_splits * m) -> [1..feature_dim -> EntryVals]] :
              a_in = [tensor |-> tensor, n_splits |-> n_splits]
    /\ a_out = [done |-> FALSE]

\* x, y = reshape_and_split_tensor(graph_vectors, 2), or the split into 4.
Split ==
    /\ ~a_out.done
    /\ a_out' = [done |-> TRUE,
                 splits |-> reshape_and_split_tensor(a_in.tensor, a_in.n_splits)]
    /\ UNCHANGED <<config, pc, net, last, was_reset, a_in>>

NextSplit == Split

SpecSplit == InitSplit /\ [][NextSplit]_vars

(***************************************************************************)
(* Properties of SpecSplit.                                                *)
(***************************************************************************)
\* C24: reshape_and_split_tensor returns n_splits tensors of
\* num_examples / n_splits rows, and row i of split j is row
\* i * n_splits + j of the tensor (counted from 0): with two splits x holds
\* the vectors of graphs 0, 2, 4.. and y those of graphs 1, 3, 5.., with
\* four splits x_1, y, x_2, z hold those of graphs 4i, 4i+1, 4i+2, 4i+3.
C24_SplitTakesEveryNthRow ==
    a_out.done =>
        /\ Len(a_out.splits) = a_in.n_splits
        /\ \A j \in 0..(a_in.n_splits - 1) :
             /\ Len(a_out.splits[j + 1]) * a_in.n_splits = Len(a_in.tensor)
             /\ \A i \in 0..(Len(a_out.splits[j + 1]) - 1) :
                  a_out.splits[j + 1][i + 1] = a_in.tensor[i * a_in.n_splits + j + 1]

\* C24 witness: a split into four of the vectors of eight graphs, rows 1 and
\* 4 of which differ.
C24_Witness ==
    /\ a_out.done /\ a_in.n_splits = 4 /\ Len(a_in.tensor) = 8
    /\ a_in.tensor[2] # a_in.tensor[5]
    /\ Len(a_out.splits[2]) = 2

(***************************************************************************)
(* SpecFixed: the iterators triplets(batch_size) and pairs(batch_size) of  *)
(* FixedGraphEditDistanceDataset and FixedKnoweldgeGraphEditDistanceDataset *)
(* on a fresh dataset object.                                              *)
(*                                                                         *)
(* a_in is the dataset object and the call.  a_out is the state of the     *)
(* iterator: the fixed set built so far (items, labels, positive), ptr,    *)
(* the batches yielded, and status: "run", "exhausted" once the while loop *)
(* is left, the exception raised, or "hang" when a call never returns.     *)
(***************************************************************************)
MaxItems == 2       \* dataset_size ranges over 0..MaxItems

\* n_changes_positive and n_changes_negative of the fixed datasets.
FixedChanges == <<0, 1>>

\* The fixed datasets, permute at the default of their constructors.
FixedDatasets ==
    { [cls |-> c, n_min |-> NodesRange[1], n_max |-> NodesRange[2],
       k_pos |-> FixedChanges[1], k_neg |-> FixedChanges[2],
       permute |-> (c = "GraphEditDistanceDataset")] :
        c \in {"GraphEditDistanceDataset", "KnowledgeGraphEditDistanceDataset"} }

InitFixed ==
    /\ config = CHOOSE c \in ConfigSpace : TRUE
    /\ pc = "fixed"
    /\ net = NewNet(config)
    /\ last = Call("none", "none", <<>>, <<>>)
    /\ was_reset = FALSE
    /\ \E ds \in FixedDatasets, m \in {"triplets", "pairs"},
          size \in 0..MaxItems, b \in 1..MaxBatch :
         a_in = [ds |-> ds, mode |-> m, dataset_size |-> size, batch_size |-> b]
    /\ a_out = [status |-> "run", items |-> <<>>, labels |-> <<>>, positive |-> TRUE,
                ptr |-> 0, yielded |-> <<>>]

\* One iteration of `for _ in range(self._dataset_size)` in triplets.
FixedGetTriplet ==
    /\ a_in.mode = "triplets" /\ a_out.status = "run"
    /\ Len(a_out.items) < a_in.dataset_size
    /\ \E t \in get_triplet(a_in.ds) :
         a_out' = IF t.err # "none" THEN [a_out EXCEPT !.status = t.err]
                  ELSE [a_out EXCEPT !.items = Append(@, TripletTuple(t.value.graphs))]
    /\ UNCHANGED <<config, pc, net, last, was_reset, a_in>>

\* One iteration of `for _ in range(self._dataset_size)` in pairs.
FixedGetPair ==
    /\ a_in.mode = "pairs" /\ a_out.status = "run"
    /\ Len(a_out.items) < a_in.dataset_size
    /\ \E t \in get_pair(a_in.ds, a_out.positive) :
         a_out' = IF t.err # "none" THEN [a_out EXCEPT !.status = t.err]
                  ELSE [a_out EXCEPT !.items = Append(@, t.value.graphs),
                                     !.labels = Append(@, LabelOf(a_out.positive)),
                                     !.positive = ~a_out.positive]
    /\ UNCHANGED <<config, pc, net, last, was_reset, a_in>>

\* One iteration of `while ptr + batch_size <= len(...)`: the slice is
\* packed and yielded, and ptr moves on.
FixedYield ==
    /\ a_out.status = "run"
    /\ Len(a_out.items) = a_in.dataset_size
    /\ a_out.ptr + a_in.batch_size <= Len(a_out.items)
    /\ LET batch_graphs == SubSeq(a_out.items, a_out.ptr + 1, a_out.ptr + a_in.batch_size)
           r == pack_batch(a_in.ds, batch_graphs)
       IN  a_out' =
             IF r.err # "none" THEN [a_out EXCEPT !.status = r.err]
             ELSE [a_out EXCEPT
                     !.yielded = Append(@,
                         [batch_graphs |-> batch_graphs,
                          labels |-> IF a_in.mode = "pairs"
                                        THEN SubSeq(a_out.labels, a_out.ptr + 1,
                                                    a_out.ptr + a_in.batch_size)
                                        ELSE <<>>,
                          n_graphs |-> r.value.n_graphs]),
                     !.ptr = @ + a_in.batch_size]
    /\ UNCHANGED <<config, pc, net, last, was_reset, a_in>>

\* The while loop is left and the iterator ends.
FixedStop ==
    /\ a_out.status = "run"
    /\ Len(a_out.items) = a_in.dataset_size
    /\ ~(a_out.ptr + a_in.batch_size <= Len(a_out.items))
    /\ a_out' = [a_out EXCEPT !.status = "exhausted"]
    /\ UNCHANGED <<config, pc, net, last, was_reset, a_in>>

NextFixed == FixedGetTriplet \/ FixedGetPair \/ FixedYield \/ FixedStop

SpecFixed == InitFixed /\ [][NextFixed]_vars

(***************************************************************************)
(* Properties of SpecFixed.                                                *)
(***************************************************************************)
\* C23: the iterator of a fixed dataset, called with batch_size >= 1, ends
\* by leaving its loop (it neither raises nor hangs) after yielding exactly
\* dataset_size \div batch_size batches; batch k (counted from 0) holds
\* items k * batch_size .. (k + 1) * batch_size - 1 of the fixed set, with
\* that slice of the labels for pairs, so that no item is in two batches and
\* a remainder shorter than batch_size is never yielded.
C23_FixedIteratorYieldsFullBatches ==
    /\ a_out.status \in {"run", "exhausted"}
    /\ a_out.status = "exhausted" =>
           Len(a_out.yielded) = a_in.dataset_size \div a_in.batch_size
    /\ \A k \in 0..(Len(a_out.yielded) - 1) :
         /\ a_out.yielded[k + 1].batch_graphs
                = SubSeq(a_out.items, k * a_in.batch_size + 1, (k + 1) * a_in.batch_size)
         /\ a_in.mode = "pairs" =>
                a_out.yielded[k + 1].labels
                    = SubSeq(a_out.labels, k * a_in.batch_size + 1, (k + 1) * a_in.batch_size)

(***************************************************************************)
(* SpecBatch: one forward pass of GraphEmbeddingNet over a batch packed by *)
(* KnowledgeGraphEditDistanceDataset._pack_batch, with the layer settings  *)
(* of get_default_config.                                                  *)
(*                                                                         *)
(* a_in holds the graph looked at (graph), the graphs packed before and    *)
(* after it, and the aggregator settings; a_out holds the packed batch and *)
(* what the pass computed: the node states after the encoder and after     *)
(* every layer, and the graph vectors.                                     *)
(***************************************************************************)
\* The graphs looked at: two or three nodes, at least one edge.
BatchGraphs ==
    UNION { { Graph(n, E, labels) :
                E \in (SUBSET NodePairs(n)) \ {{}}, labels \in [0..(n - 1) -> LabelVals] } :
            n \in 2..3 }

\* The graphs packed around them.
ContextGraphs ==
    { Graph(2, {<<0, 1>>}, [v \in 0..1 |-> IF v = 0 THEN "a" ELSE "b"]),
      Graph(3, {<<0, 1>>, <<1, 2>>}, [v \in 0..2 |-> IF v = 1 THEN "a" ELSE "b"]),
      Graph(3, {<<0, 1>>, <<0, 2>>, <<1, 2>>}, [v \in 0..2 |-> "b"]) }

\* The dataset whose _pack_batch packs the batch.
BatchDataset ==
    CHOOSE ds \in Datasets : ds.cls = "KnowledgeGraphEditDistanceDataset"

\* The number the embedder gives for a node label.
EmbeddingValue(feature) == IF feature = get_embedding("a") THEN 0 ELSE 1

\* The arguments of the forward pass over the packed batch: node features,
\* edges and graph_idx of the GraphData, n_graphs, and the layer settings.
ModelInputs(packed) ==
    [n_nodes |-> Len(packed.graph_idx),
     node_states |-> [v \in 0..(Len(packed.graph_idx) - 1) |->
                         EmbeddingValue(packed.node_features[v + 1])],
     from_idx |-> packed.from_idx,
     to_idx |-> packed.to_idx,
     edge_features |-> [k \in 1..Len(packed.from_idx) |-> 1],
     use_reverse_direction |-> UseReverseDirection,
     reverse_dir_param_different |-> ReverseDirParamDifferent,
     node_update_type |-> DefaultNodeUpdateType,
     graph_idx |-> packed.graph_idx,
     n_graphs |-> packed.n_graphs]

\* The list layer_outputs after the loop over the propagation layers from
\* layer i on.
RECURSIVE LayerOutputsFrom(_, _, _)
LayerOutputsFrom(b, layer_outputs, i) ==
    IF i > Len(PropParams) THEN layer_outputs
    ELSE LayerOutputsFrom(b,
             Append(layer_outputs,
                    GraphPropLayer_apply(PropParams[i], b,
                                         layer_outputs[Len(layer_outputs)]).node_states),
             i + 1)

\* A forward pass that hands the aggregator one graph index for all nodes.
GraphEmbeddingNet_forward_batch_OneGraph(b, agg) ==
    LET encoded == [v \in DOMAIN b.node_states |-> MLP(EncoderParams, <<b.node_states[v]>>)]
        layer_outputs == LayerOutputsFrom(b, <<encoded>>, 1)
        final == layer_outputs[Len(layer_outputs)]
    IN  [layer_outputs |-> layer_outputs,
         out |-> GraphAggregator_build(agg, [k \in 1..b.n_nodes |-> final[k - 1]],
                                       [k \in 1..b.n_nodes |-> 0], b.n_graphs).out]

\* GraphEmbeddingNet._build on the batch b: encoder, propagation layers,
\* aggregator; the list layer_outputs and the graph vectors.
GraphEmbeddingNet_forward_batch(b, agg) ==
    LET encoded == [v \in DOMAIN b.node_states |-> MLP(EncoderParams, <<b.node_states[v]>>)]
        layer_outputs == LayerOutputsFrom(b, <<encoded>>, 1)
        final == layer_outputs[Len(layer_outputs)]
    IN  [layer_outputs |-> layer_outputs,
         out |-> GraphAggregator_build(agg, [k \in 1..b.n_nodes |-> final[k - 1]],
                                       b.graph_idx, b.n_graphs).out]

\* The sequences of at most n context graphs.
ContextLists(n) == UNION { [1..k -> ContextGraphs] : k \in 0..n }

InitBatch ==
    /\ config = CHOOSE c \in ConfigSpace : TRUE
    /\ pc = "batch"
    /\ net = NewNet(config)
    /\ last = Call("none", "none", <<>>, <<>>)
    /\ was_reset = FALSE
    /\ \E g \in BatchGraphs, ty \in AGGREGATION_TYPE, gated \in BOOLEAN :
         \E before \in ContextLists(MaxGraphs - 1) :
            \E after \in ContextLists(MaxGraphs - 1 - Len(before)) :
               a_in = [graph |-> g, before |-> before, after |-> after,
                       agg |-> [gated |-> gated, aggregation_type |-> ty,
                                graph_transform |-> TRUE]]
    /\ a_out = [done |-> FALSE]

\* The batch is packed and the model is run on it.
ForwardBatch ==
    /\ ~a_out.done
    /\ LET packed == pack_batch(BatchDataset,
                                <<a_in.before \o <<a_in.graph>> \o a_in.after>>).value
           r == GraphEmbeddingNet_forward_batch(ModelInputs(packed), a_in.agg)
       IN  a_out' = [done |-> TRUE, packed |-> packed,
                     layer_outputs |-> r.layer_outputs, out |-> r.out]
    /\ UNCHANGED <<config, pc, net, last, was_reset, a_in>>

NextBatchPass == ForwardBatch

SpecBatch == InitBatch /\ [][NextBatchPass]_vars

(***************************************************************************)
(* Properties of SpecBatch.                                                *)
(***************************************************************************)
\* The pass over the batch that holds the graph alone.
AlonePass ==
    GraphEmbeddingNet_forward_batch(
        ModelInputs(pack_batch(BatchDataset, <<<<a_in.graph>>>>).value), a_in.agg)

\* C22: in the embedding net, the graph vector of a graph and the states of
\* its nodes after the encoder and after every round are those the graph
\* gets in a batch of its own, whatever graphs are packed before and after
\* it and however many they are.
C22_GraphVectorIgnoresOtherGraphs ==
    a_out.done =>
        LET j == Len(a_in.before)
            offset == NodesBefore(a_in.before, Len(a_in.before))
            alone == AlonePass
        IN  /\ a_out.out[j] = alone.out[0]
            /\ Len(a_out.layer_outputs) = Len(alone.layer_outputs)
            /\ \A t \in 1..Len(a_out.layer_outputs) :
                 \A v \in 0..(a_in.graph.n_nodes - 1) :
                    a_out.layer_outputs[t][v + offset] = alone.layer_outputs[t][v]

\* C22 witness: a pass under the gated 'mean' aggregator over a batch of
\* two in which another graph is packed before the graph.
C22_Witness ==
    /\ a_out.done
    /\ Len(a_in.before) = 1
    /\ a_in.before[1] # a_in.graph
    /\ a_in.agg.gated /\ a_in.agg.aggregation_type = "mean"
    /\ a_out.packed.n_graphs = 2

====
